---- MODULE Spec2Model ----
(***************************************************************************)
(* Convoso Insight Lens content script (content.js): derived percentage    *)
(* columns injected into the host's report tables, the visibility policy,  *)
(* the debounced change watcher and the agent x list aggregation.          *)
(*                                                                         *)
(* Texts are TLA+ strings handled character by character, numbers are      *)
(* exact rationals [n, d] (d = 0 encodes NaN and +/-Infinity), indices are *)
(* the 0-based indices of the JavaScript source with -1 for "not found".   *)
(***************************************************************************)
EXTENDS Integers, Sequences, FiniteSets, TLC

VARIABLES
    tables,          \* document.querySelectorAll('table'): the live DOM tables
    enabled,         \* INSIGHT_CONFIG.enabled
    hiddenColumns,   \* INSIGHT_CONFIG.hiddenColumns
    lensedColumns,   \* INSIGHT_CONFIG.lensedColumns
    columnsInjected, \* let columnsInjected
    panel,           \* the settings panel element and its checkboxes
    stored,          \* chrome.storage.local, key insightLens
    timers,          \* the browser's table of scheduled timeouts
    debounceTimer,   \* let debounceTimer
    records,         \* mutation records queued for the MutationObserver
    task,            \* a suspended async continuation (await saveSettings())
    hist,            \* history of the run, read by the properties only
    overlay,         \* the overlay dashboard element (let overlayVisible)
    inp,             \* argument of a function under check
    out              \* its result

vars == <<tables, enabled, hiddenColumns, lensedColumns, columnsInjected, panel,
          stored, timers, debounceTimer, records, task, hist, overlay, inp, out>>

(***************************************************************************)
(* Strings                                                                 *)
(***************************************************************************)
CharAt(s, i) == SubSeq(s, i, i)

UpperChars == <<"A","B","C","D","E","F","G","H","I","J","K","L","M",
                "N","O","P","Q","R","S","T","U","V","W","X","Y","Z">>
LowerChars == <<"a","b","c","d","e","f","g","h","i","j","k","l","m",
                "n","o","p","q","r","s","t","u","v","w","x","y","z">>
UpperSet == {UpperChars[k] : k \in 1..26}
LowerOf == [c \in UpperSet |-> LowerChars[CHOOSE k \in 1..26 : UpperChars[k] = c]]

LowerChar(c) == IF c \in UpperSet THEN LowerOf[c] ELSE c

RECURSIVE LowerFrom(_, _)
LowerFrom(s, i) ==
    IF i > Len(s) THEN "" ELSE LowerChar(CharAt(s, i)) \o LowerFrom(s, i + 1)

\* The texts of the configuration and of the modelled pages, lowered and
\* trimmed once; any other text is computed on the spot by the same definitions
KnownTexts ==
    {"contacts", "contact", "appt", "status 'appt", "status 'appt - appointment scheduled'",
     "appointment", "lxfer", "status 'lxfer", "status 'lxfer - live transfer'",
     "live transfer", "success", "all success", "total success", "dialed",
     "User", "Agent", "List", "Dialed", "Contacts", "APPT", "LXFER", "Status 'APPT",
     "All Success", "Name", "Total", "user", "agent", "list", "status 'appt",
     "name", "total", "APPT%(C)", "APPT%(D)", "LXFER%(C)", "LXFER%(D)", "SUCCESS%(C)",
     "SUCCESS%(D)", "appt%(c)", "appt%(d)", "lxfer%(c)", "lxfer%(d)", "success%(c)",
     "success%(d)"}
LowerKnown == [s \in KnownTexts |-> LowerFrom(s, 1)]

toLowerCase(s) == IF s \in KnownTexts THEN LowerKnown[s] ELSE LowerFrom(s, 1)

IsSpace(c) == c \in {" ", "\t", "\n"}

RECURSIVE SpacesFrom(_, _)
SpacesFrom(s, i) ==
    IF i <= Len(s) /\ IsSpace(CharAt(s, i)) THEN 1 + SpacesFrom(s, i + 1) ELSE 0

RECURSIVE SpacesTo(_, _)
SpacesTo(s, i) ==
    IF i >= 1 /\ IsSpace(CharAt(s, i)) THEN 1 + SpacesTo(s, i - 1) ELSE 0

trimStart(s) == SubSeq(s, 1 + SpacesFrom(s, 1), Len(s))
trimEnd(s) == SubSeq(s, 1, Len(s) - SpacesTo(s, Len(s)))
TrimKnown == [s \in KnownTexts |-> trimEnd(trimStart(s))]
trim(s) == IF s \in KnownTexts THEN TrimKnown[s] ELSE trimEnd(trimStart(s))

\* String.prototype.includes
includes(s, t) ==
    \E i \in 0..(Len(s) - Len(t)) : SubSeq(s, i + 1, i + Len(t)) = t

\* str.replace(/[%$,]/g, '')
RECURSIVE stripSymbols(_)
stripSymbols(s) ==
    IF Len(s) = 0 THEN ""
    ELSE (IF CharAt(s, 1) \in {"%", "$", ","} THEN "" ELSE CharAt(s, 1))
         \o stripSymbols(SubSeq(s, 2, Len(s)))

(***************************************************************************)
(* Numbers: exact rationals in lowest terms; d = 0 is NaN (n = 0),         *)
(* Infinity (n = 1) or -Infinity (n = -1)                                  *)
(***************************************************************************)
Abs(x) == IF x < 0 THEN -x ELSE x
Sign(x) == IF x < 0 THEN -1 ELSE IF x > 0 THEN 1 ELSE 0

RECURSIVE GCD(_, _)
GCD(a, b) == IF b = 0 THEN a ELSE GCD(b, a % b)

Rat(n, d) ==
    IF d = 0 THEN [n |-> Sign(n), d |-> 0]
    ELSE LET g == GCD(Abs(n), Abs(d))
         IN  [n |-> Sign(d) * (n \div g), d |-> Abs(d) \div g]

Num(k) == [n |-> k, d |-> 1]
NaN == [n |-> 0, d |-> 0]
isNaN(x) == x.d = 0 /\ x.n = 0
isFinite(x) == x.d # 0

Add(x, y) ==
    IF x.d # 0 /\ y.d # 0 THEN Rat(x.n * y.d + y.n * x.d, x.d * y.d)
    ELSE IF isNaN(x) \/ isNaN(y) THEN NaN
    ELSE IF x.d = 0 /\ y.d = 0 THEN (IF x.n = y.n THEN x ELSE NaN)
    ELSE IF x.d = 0 THEN x ELSE y

Mul(x, y) ==
    IF isNaN(x) \/ isNaN(y) THEN NaN
    ELSE Rat(x.n * y.n, x.d * y.d)

\* x / y: a finite x over 0 is NaN or +/-Infinity
Div(x, y) ==
    IF isNaN(x) \/ isNaN(y) THEN NaN
    ELSE IF x.d = 0 /\ y.d = 0 THEN NaN
    ELSE IF y.d = 0 THEN Num(0)
    ELSE IF y.n = 0 THEN Rat(x.n, 0)
    ELSE Rat(x.n * y.d * Sign(y.n), x.d * Abs(y.n))

Gt(x, y) ==
    /\ ~isNaN(x) /\ ~isNaN(y)
    /\ IF x.d = 0 THEN x.n = 1 /\ ~(y.d = 0 /\ y.n = 1)
       ELSE IF y.d = 0 THEN y.n = -1
       ELSE x.n * y.d > y.n * x.d

(***************************************************************************)
(* JavaScript values that reach parseNum: undefined (a missing cell), a    *)
(* string (innerText) or a number                                          *)
(***************************************************************************)
JsUndef == [type |-> "undefined"]
JsStr(s) == [type |-> "string", str |-> s]
JsNum(x) == [type |-> "number", num |-> x]
JsNull == [type |-> "null"]

Digits == <<"0","1","2","3","4","5","6","7","8","9">>
IsDigit(c) == \E k \in 1..10 : Digits[k] = c
DigitVal(c) == (CHOOSE k \in 1..10 : Digits[k] = c) - 1

\* number of digit characters of s from position i on
RECURSIVE DigitRun(_, _)
DigitRun(s, i) ==
    IF i <= Len(s) /\ IsDigit(CharAt(s, i)) THEN 1 + DigitRun(s, i + 1) ELSE 0

\* value of the k digits of s from position i on, appended to acc
RECURSIVE DigitsVal(_, _, _, _)
DigitsVal(s, i, k, acc) ==
    IF k = 0 THEN acc
    ELSE DigitsVal(s, i + 1, k - 1, acc * 10 + DigitVal(CharAt(s, i)))

RECURSIVE Pow10(_)
Pow10(k) == IF k = 0 THEN 1 ELSE 10 * Pow10(k - 1)

\* does t stand in s at position i
At(s, i, t) == i + Len(t) - 1 <= Len(s) /\ SubSeq(s, i, i + Len(t) - 1) = t

\* the mantissa m / 10^fl scaled by the decimal exponent ev (neg: 10^-ev);
\* 308 is the largest decimal exponent of a finite double, 324 the smallest
\* of a double that is not 0
Scaled(m, fl, neg, ev) ==
    IF neg THEN (IF ev > 324 THEN Num(0) ELSE Rat(m, Pow10(fl) * Pow10(ev)))
    ELSE (IF ev > 308 THEN Rat(Sign(m), 0) ELSE Rat(m * Pow10(ev), Pow10(fl)))

\* the exponent digits from position ep on; without a digit there is no exponent
ParseExpDigits(s, m, fl, neg, ep, el) ==
    IF el = 0 THEN Rat(m, Pow10(fl)) ELSE Scaled(m, fl, neg, DigitsVal(s, ep, el, 0))

ParseExpSign(s, m, fl, neg, ep) == ParseExpDigits(s, m, fl, neg, ep, DigitRun(s, ep))

\* the exponent part (e|E)[+-]digits at position e, if there is one
ParseExp(s, m, fl, e) ==
    IF m = 0 \/ ~(e <= Len(s) /\ CharAt(s, e) \in {"e", "E"}) THEN Rat(m, Pow10(fl))
    ELSE IF e + 1 <= Len(s) /\ CharAt(s, e + 1) \in {"+", "-"}
    THEN ParseExpSign(s, m, fl, CharAt(s, e + 1) = "-", e + 2)
    ELSE ParseExpSign(s, m, fl, FALSE, e + 1)

\* il integer digits at position p, then fl fraction digits behind a dot
ParseMantissa(s, p, sgn, il, dot, fl) ==
    IF il + fl = 0 THEN NaN
    ELSE ParseExp(s, sgn * (DigitsVal(s, p, il, 0) * Pow10(fl) + DigitsVal(s, p + il + 1, fl, 0)),
                  fl, p + il + (IF dot THEN 1 + fl ELSE 0))

ParseDigits(s, p, sgn, il) ==
    IF p + il <= Len(s) /\ CharAt(s, p + il) = "."
    THEN ParseMantissa(s, p, sgn, il, TRUE, DigitRun(s, p + il + 1))
    ELSE ParseMantissa(s, p, sgn, il, FALSE, 0)

ParseUnsigned(s, p, sgn) ==
    IF At(s, p, "Infinity") THEN Rat(sgn, 0) ELSE ParseDigits(s, p, sgn, DigitRun(s, p))

ParseSigned(s) ==
    IF Len(s) > 0 /\ CharAt(s, 1) \in {"+", "-"}
    THEN ParseUnsigned(s, 2, IF CharAt(s, 1) = "-" THEN -1 ELSE 1)
    ELSE ParseUnsigned(s, 1, 1)

\* parseFloat: the longest prefix [+-]Infinity or
\* [+-]digits[.digits][(e|E)[+-]digits] of the trimmed string, NaN when that
\* prefix holds no mantissa digit
parseFloat(str) == ParseSigned(trimStart(str))

\* parseNum without the removal of %, $ and the thousands separators
parseNumNoStrip(str) ==
    IF str.type # "string" \/ str.str = "" THEN Num(0)
    ELSE LET num == parseFloat(trim(str.str))
         IN  IF isNaN(num) THEN Num(0) ELSE num

\* content.js:98 parseNum
parseNum(str) ==
    IF str.type # "string" \/ str.str = "" THEN Num(0)
    ELSE LET clean == trim(stripSymbols(str.str))
             num == parseFloat(clean)
         IN  IF isNaN(num) THEN Num(0) ELSE num

\* Number.prototype.toFixed(f) of a finite x: the integer n with n / 10^f
\* closest to |x| (the larger n on a tie), written with f decimals
Pad(k, w) == IF w = 2 /\ k < 10 THEN "0" \o ToString(k) ELSE ToString(k)

toFixed(x, f) ==
    IF isNaN(x) THEN "NaN"
    ELSE IF x.d = 0 THEN (IF x.n > 0 THEN "Infinity" ELSE "-Infinity")
    ELSE LET a == Abs(x.n)
             n == (2 * a * Pow10(f) + x.d) \div (2 * x.d)
             body == ToString(n \div Pow10(f)) \o "." \o Pad(n % Pow10(f), f)
         IN  IF x.n < 0 THEN "-" \o body ELSE body

\* content.js:108 formatPct
\* the em dash (U+2014) of formatPct, written in ASCII
DashText == "--"

\* the display text with one decimal
formatPctOneDecimal(num) ==
    IF isNaN(num) \/ ~isFinite(num) THEN DashText ELSE toFixed(num, 1) \o "%"

formatPct(num) ==
    IF isNaN(num) \/ ~isFinite(num) THEN DashText ELSE toFixed(num, 2) \o "%"

MinOf(S) == CHOOSE i \in S : \A j \in S : i <= j

\* findColumnIndex with the loops exchanged
RECURSIVE FindByTerm(_, _, _)
FindByTerm(headers, terms, k) ==
    IF k > Len(terms) THEN -1
    ELSE LET hits == {i \in 0..(Len(headers) - 1) :
                         includes(trim(toLowerCase(headers[i + 1])), toLowerCase(terms[k]))}
         IN  IF hits # {} THEN MinOf(hits) ELSE FindByTerm(headers, terms, k + 1)
findColumnIndexByTerm(headers, searchTerms) == FindByTerm(headers, searchTerms, 1)

\* content.js:126 the loop over the headers, content.js:128 the loop over the
\* search terms
RECURSIVE FindFrom(_, _, _)
FindFrom(headers, term, i) ==
    IF i >= Len(headers) THEN -1
    ELSE LET headerText == trim(toLowerCase(headers[i + 1]))
         IN  IF \E k \in 1..Len(term) : includes(headerText, term[k]) THEN i
             ELSE FindFrom(headers, term, i + 1)

\* content.js:125 findColumnIndex
findColumnIndex(headers, searchTerms) ==
    FindFrom(headers, [k \in 1..Len(searchTerms) |-> toLowerCase(searchTerms[k])], 0)

(***************************************************************************)
(* Configuration (content.js:14 INSIGHT_CONFIG)                            *)
(***************************************************************************)
Columns == [contacts |-> <<"contacts", "contact">>,
            appt     |-> <<"appt", "status 'appt",
                           "status 'appt - appointment scheduled'", "appointment">>,
            lxfer    |-> <<"lxfer", "status 'lxfer",
                           "status 'lxfer - live transfer'", "live transfer">>,
            success  |-> <<"success", "all success", "total success">>,
            dialed   |-> <<"dialed">>]

LensedKeys == {"apptContacts", "apptCalls", "lxferContacts", "lxferCalls",
               "successContacts", "successCalls"}

DefaultLensed == [k \in LensedKeys |-> TRUE]

\* The six insertion requests of processTable in the order of their push calls
Descriptors ==
    << [lensedKey |-> "successCalls", headerText |-> "SUCCESS%(D)", metricType |-> "success",
        num |-> "success", den |-> "dialed",
        cssClass |-> "insight-calc-col insight-success-calls"],
       [lensedKey |-> "successContacts", headerText |-> "SUCCESS%(C)", metricType |-> "success",
        num |-> "success", den |-> "contacts",
        cssClass |-> "insight-calc-col insight-success-contacts"],
       [lensedKey |-> "lxferCalls", headerText |-> "LXFER%(D)", metricType |-> "lxfer",
        num |-> "lxfer", den |-> "dialed",
        cssClass |-> "insight-calc-col insight-lxfer-calls"],
       [lensedKey |-> "lxferContacts", headerText |-> "LXFER%(C)", metricType |-> "lxfer",
        num |-> "lxfer", den |-> "contacts",
        cssClass |-> "insight-calc-col insight-lxfer-contacts"],
       [lensedKey |-> "apptCalls", headerText |-> "APPT%(D)", metricType |-> "appt",
        num |-> "appt", den |-> "dialed",
        cssClass |-> "insight-calc-col insight-appt-calls"],
       [lensedKey |-> "apptContacts", headerText |-> "APPT%(C)", metricType |-> "appt",
        num |-> "appt", den |-> "contacts",
        cssClass |-> "insight-calc-col insight-appt-contacts"] >>

\* the markers of the "already injected" test of processTable
InjectedMarkers == {"APPT%(C)", "LXFER%(C)", "SUCCESS%(C)"}

(***************************************************************************)
(* DOM: a cell is its innerText, its class attribute and style.display =   *)
(* 'none'; a table is its thead row and its tbody rows                     *)
(***************************************************************************)
HostCell(t) == [text |-> t, cls |-> "", hid |-> FALSE]
HostRow(ts) == [i \in 1..Len(ts) |-> HostCell(ts[i])]
HostTable(hs, rs) == [head |-> HostRow(hs), rows |-> [r \in 1..Len(rs) |-> HostRow(rs[r])]]

Texts(row) == [i \in 1..Len(row) |-> row[i].text]
HeaderTexts(table) == [i \in 1..Len(table.head) |-> trim(table.head[i].text)]

\* cells[idx]?.innerText
InnerText(cells, idx) ==
    IF idx >= 0 /\ idx < Len(cells) THEN JsStr(cells[idx + 1].text) ELSE JsUndef

\* the calculate closure without its test of the denominator
CalculateUnguarded(cells, numIdx, denIdx) ==
    Mul(Div(parseNum(InnerText(cells, numIdx)), parseNum(InnerText(cells, denIdx))), Num(100))

\* denominator > 0 ? (numerator / denominator) * 100 : 0
Percent(num, den) == IF Gt(den, Num(0)) THEN Mul(Div(num, den), Num(100)) ELSE Num(0)

\* the calculate closure of an insertion request
Calculate(cells, numIdx, denIdx) ==
    Percent(parseNum(InnerText(cells, numIdx)), parseNum(InnerText(cells, denIdx)))

\* insertions.sort((a, b) => b.afterIdx - a.afterIdx): stable, descending
RECURSIVE SortInsertions(_)
SortInsertions(ins) ==
    IF Len(ins) <= 1 THEN ins
    ELSE LET rest == SortInsertions(Tail(ins))
             x == Head(ins)
             before == SelectSeq(rest, LAMBDA y : y.afterIdx > x.afterIdx)
             after == SelectSeq(rest, LAMBDA y : y.afterIdx <= x.afterIdx)
         IN  before \o <<x>> \o after

\* one insertion put in front of its anchor instead of behind it
InsertOneBefore(trow, afterIdx, cell) ==
    LET new == [c |-> cell, o |-> -1]
        at == {p \in 1..Len(trow) : trow[p].o = afterIdx}
    IN  IF at = {} THEN Append(trow, new)
        ELSE LET p == CHOOSE q \in at : TRUE
             IN  SubSeq(trow, 1, p - 1) \o <<new>> \o SubSeq(trow, p, Len(trow))

\* One insertion into a live row. The row is a sequence of [c, o]: the cell and
\* its index in the array taken before the loop (-1 for a cell created since).
\* afterCell = cells[afterIdx]; insertBefore(afterCell.nextSibling) when the
\* anchor exists and has a next sibling, appendChild otherwise.
InsertOne(trow, afterIdx, cell) ==
    LET new == [c |-> cell, o |-> -1]
        at == {p \in 1..Len(trow) : trow[p].o = afterIdx}
    IN  IF at = {} THEN Append(trow, new)
        ELSE LET p == CHOOSE q \in at : TRUE
             IN  SubSeq(trow, 1, p) \o <<new>> \o SubSeq(trow, p + 1, Len(trow))

RECURSIVE InsertAll(_, _)
InsertAll(trow, news) ==
    IF news = <<>> THEN trow
    ELSE InsertAll(InsertOne(trow, Head(news).afterIdx, Head(news).cell), Tail(news))

Tagged(row) == [i \in 1..Len(row) |-> [c |-> row[i], o |-> i - 1]]
Untagged(trow) == [i \in 1..Len(trow) |-> trow[i].c]

\* the insertion requests for the role indices idx
InsertionsAt(idx, lensed) ==
    [i \in 1..Len(Descriptors) |->
        [afterIdx |-> idx[Descriptors[i].num], numIdx |-> idx[Descriptors[i].num],
         denIdx |-> idx[Descriptors[i].den], headerText |-> Descriptors[i].headerText,
         cssClass |-> Descriptors[i].cssClass, lensedKey |-> Descriptors[i].lensedKey]]

\* the insertions array built without reading lensedColumns
BuildInsertionsAll(headers, lensed) ==
    SelectSeq(InsertionsAt([r \in DOMAIN Columns |-> findColumnIndex(headers, Columns[r])],
                           lensed),
              LAMBDA d : d.numIdx # -1 /\ d.denIdx # -1)

\* The insertions array of processTable before the sort
BuildInsertions(headers, lensed) ==
    SelectSeq(InsertionsAt([r \in DOMAIN Columns |-> findColumnIndex(headers, Columns[r])],
                           lensed),
              LAMBDA d : d.numIdx # -1 /\ d.denIdx # -1 /\ lensed[d.lensedKey])

AlreadyProcessed(headers) ==
    \E i \in 1..Len(headers) : \E m \in InjectedMarkers : includes(headers[i], m)

\* content.js:295 the header cells of the insertion requests
HeadNews(insertions) ==
    [i \in 1..Len(insertions) |->
        [afterIdx |-> insertions[i].afterIdx,
         cell |-> [text |-> insertions[i].headerText, cls |-> insertions[i].cssClass,
                   hid |-> FALSE]]]

\* content.js:320 the data cells of the insertion requests for one body row
RowNews(cells, insertions) ==
    [i \in 1..Len(insertions) |->
        [afterIdx |-> insertions[i].afterIdx,
         cell |-> [text |-> formatPct(Calculate(cells, insertions[i].numIdx,
                                                insertions[i].denIdx)),
                   cls |-> insertions[i].cssClass, hid |-> FALSE]]]

\* one body row with the derived cells put at the end of the row
NewRowAppended(cells, insertions) ==
    IF Len(cells) = 0 THEN cells
    ELSE cells \o [i \in 1..Len(insertions) |-> RowNews(cells, insertions)[i].cell]

\* content.js:312 one body row
NewRow(cells, insertions) ==
    IF Len(cells) = 0 THEN cells
    ELSE Untagged(InsertAll(Tagged(cells), RowNews(cells, insertions)))

\* processTable without its return on an empty insertion list: the flag is
\* set although nothing is inserted
InjectColumnsNoReturn(table, insertions) ==
    [table |-> [head |-> Untagged(InsertAll(Tagged(table.head), HeadNews(insertions))),
                rows |-> [r \in 1..Len(table.rows) |-> NewRow(table.rows[r], insertions)]],
     injected |-> TRUE]

\* content.js:290 the sorted insertion requests applied to the table
InjectColumns(table, insertions) ==
    IF Len(insertions) = 0 THEN [table |-> table, injected |-> FALSE]
    ELSE [table |-> [head |-> Untagged(InsertAll(Tagged(table.head), HeadNews(insertions))),
                     rows |-> [r \in 1..Len(table.rows) |->
                                  NewRow(table.rows[r], insertions)]],
          injected |-> TRUE]

\* processTable without its schema requirement: no test of the contacts and
\* dialed roles, and a request only needs its numerator role
ProcessHeadersNoSchema(table, headers, lensed) ==
    IF Len(table.head) = 0 \/ AlreadyProcessed(headers)
    THEN [table |-> table, injected |-> FALSE]
    ELSE InjectColumns(table, SortInsertions(SelectSeq(
             InsertionsAt([r \in DOMAIN Columns |-> findColumnIndex(headers, Columns[r])],
                          lensed),
             LAMBDA d : d.numIdx # -1 /\ lensed[d.lensedKey])))

\* content.js:154 the guards of processTable on the header texts
ProcessHeaders(table, headers, lensed) ==
    IF \/ Len(table.head) = 0
       \/ AlreadyProcessed(headers)
       \/ /\ findColumnIndex(headers, Columns.contacts) = -1
          /\ findColumnIndex(headers, Columns.dialed) = -1
    THEN [table |-> table, injected |-> FALSE]
    ELSE InjectColumns(table, SortInsertions(BuildInsertions(headers, lensed)))

\* content.js:146 processTable: the table after the call and whether the call
\* reached columnsInjected = true
processTable(table, lensed) == ProcessHeaders(table, HeaderTexts(table), lensed)

\* lensedHeaderMap of applyColumnVisibility
LensedKeyOf(headerText) ==
    LET ds == {i \in 1..Len(Descriptors) : Descriptors[i].headerText = headerText}
    IN  IF ds = {} THEN "" ELSE Descriptors[CHOOSE i \in ds : TRUE].lensedKey

\* style.display of the header cell at colIndex and of cells[colIndex] of each row
SetColumnDisplay(table, colIndex, isHidden) ==
    [head |-> [table.head EXCEPT ![colIndex + 1].hid = isHidden],
     rows |-> [r \in 1..Len(table.rows) |->
                 IF colIndex < Len(table.rows[r])
                 THEN [table.rows[r] EXCEPT ![colIndex + 1].hid = isHidden]
                 ELSE table.rows[r]]]

RECURSIVE VisibilityFrom(_, _, _, _)
VisibilityFrom(table, colIndex, lensed, hidden) ==
    IF colIndex >= Len(table.head) THEN table
    ELSE LET headerText == trim(table.head[colIndex + 1].text)
             lensedKey == LensedKeyOf(headerText)
             isHidden == IF lensedKey # "" THEN ~lensed[lensedKey]
                         ELSE headerText \in hidden
         IN  VisibilityFrom(SetColumnDisplay(table, colIndex, isHidden),
                            colIndex + 1, lensed, hidden)

\* the visibility policy with every header looked up in the hide-list only
applyColumnVisibilityByHideList(table, lensed, hidden) ==
    [head |-> [i \in 1..Len(table.head) |->
                 [table.head[i] EXCEPT !.hid = trim(table.head[i].text) \in hidden]],
     rows |-> [r \in 1..Len(table.rows) |->
                 [i \in 1..Len(table.rows[r]) |->
                     IF i <= Len(table.head)
                     THEN [table.rows[r][i] EXCEPT
                              !.hid = trim(table.head[i].text) \in hidden]
                     ELSE table.rows[r][i]]]]

\* content.js:363 applyColumnVisibility
applyColumnVisibility(table, lensed, hidden) ==
    VisibilityFrom(table, 0, lensed, hidden)

\* the single-column toggle setting the header cells only
DisplayHeadersByText(table, colIndex, headerText, isVisible) ==
    [table EXCEPT !.head =
        [i \in 1..Len(table.head) |->
            IF trim(table.head[i].text) = headerText
            THEN [table.head[i] EXCEPT !.hid = ~isVisible] ELSE table.head[i]]]

RECURSIVE DisplayByTextFrom(_, _, _, _)
DisplayByTextFrom(table, colIndex, headerText, isVisible) ==
    IF colIndex >= Len(table.head) THEN table
    ELSE DisplayByTextFrom(
             IF trim(table.head[colIndex + 1].text) = headerText
             THEN SetColumnDisplay(table, colIndex, ~isVisible) ELSE table,
             colIndex + 1, headerText, isVisible)

\* content.js:450 applyOriginalColumnVisibility, over all tables
applyOriginalColumnVisibility(tbls, headerText, isVisible) ==
    [t \in 1..Len(tbls) |-> DisplayByTextFrom(tbls[t], 0, headerText, isVisible)]

\* content.js:411 applyLensedColumnVisibility, over all tables
applyLensedColumnVisibility(tbls, key, isVisible) ==
    LET ds == {i \in 1..Len(Descriptors) : Descriptors[i].lensedKey = key}
    IN  IF ds = {} THEN tbls
        ELSE applyOriginalColumnVisibility(
                 tbls, Descriptors[CHOOSE i \in ds : TRUE].headerText, isVisible)

IsInjected(cell) == includes(cell.cls, "insight-calc-col")

\* removeInjectedColumns taking the derived header cells only
removeInjectedHeaders(tbls) ==
    [t \in 1..Len(tbls) |->
        [tbls[t] EXCEPT !.head = SelectSeq(tbls[t].head, LAMBDA c : ~IsInjected(c))]]

\* content.js:643 removeInjectedColumns: every .insight-calc-col element removed
removeInjectedColumns(tbls) ==
    [t \in 1..Len(tbls) |->
        [head |-> SelectSeq(tbls[t].head, LAMBDA c : ~IsInjected(c)),
         rows |-> [r \in 1..Len(tbls[t].rows) |->
                     SelectSeq(tbls[t].rows[r], LAMBDA c : ~IsInjected(c))]]]

\* content.js:349 the loop over the tables, res the results of processTable
ScanResult(res, lensed, hidden) ==
    [tables |-> [t \in 1..Len(res) |-> applyColumnVisibility(res[t].table, lensed, hidden)],
     injected |-> \E t \in 1..Len(res) : res[t].injected]

\* content.js:342 scanAndInject: processTable then applyColumnVisibility on

\* a scan pass that does not look at the enabled flag
scanAndInjectAlways(tbls, on, lensed, hidden) ==
    ScanResult([t \in 1..Len(tbls) |-> processTable(tbls[t], lensed)], lensed, hidden)

\* every table; the tables after the pass and whether any call injected
scanAndInject(tbls, on, lensed, hidden) ==
    IF ~on THEN [tables |-> tbls, injected |-> FALSE]
    ELSE ScanResult([t \in 1..Len(tbls) |-> processTable(tbls[t], lensed)], lensed, hidden)

(***************************************************************************)
(* Settings store, settings panel, timers                                  *)
(***************************************************************************)
NoStore == [present |-> FALSE, hiddenColumns |-> {}, lensedColumns |-> <<>>]
StoreOf(hidden, lensed) ==
    [present |-> TRUE, hiddenColumns |-> hidden, lensedColumns |-> lensed]

\* loadSettings with the stored lensedColumns taken as they are, without the
\* merge over the defaults
loadSettingsUnmerged(store) ==
    IF ~store.present THEN [hiddenColumns |-> {}, lensedColumns |-> DefaultLensed]
    ELSE [hiddenColumns |-> store.hiddenColumns, lensedColumns |-> store.lensedColumns]

\* content.js:53 loadSettings: the stored lensedColumns merged over the defaults
loadSettings(store) ==
    IF ~store.present THEN [hiddenColumns |-> {}, lensedColumns |-> DefaultLensed]
    ELSE [hiddenColumns |-> store.hiddenColumns,
          lensedColumns |-> [k \in LensedKeys |->
                                IF k \in DOMAIN store.lensedColumns
                                THEN store.lensedColumns[k] ELSE DefaultLensed[k]]]

\* content.js:54 the try block of loadSettings; when chrome.storage.local.get
\* throws, the catch block leaves the built-in configuration as it is
loadSettingsCaught(throws, store) ==
    IF throws THEN [hiddenColumns |-> {}, lensedColumns |-> DefaultLensed]
    ELSE loadSettings(store)

\* content.js:79 chrome.storage.local.set: the store keeps its entry when it
\* rejects the call
storageSet(store, value, rejects) == IF rejects THEN store ELSE value

\* the promise of saveSettings without its catch block
saveSettledUncaught(rejects) == IF rejects THEN "rejected" ELSE "fulfilled"

\* content.js:77 the promise saveSettings returns: the catch block logs the
\* error, so the promise is fulfilled whether the store rejects or not
saveSettled(rejects) == "fulfilled"

\* saveSettings writing the derived-column flags only
saveSettingsLensedOnly(hidden, lensed) == StoreOf({}, lensed)

\* content.js:77 saveSettings: the value handed to chrome.storage.local.set
saveSettings(hidden, lensed) == StoreOf(hidden, lensed)

\* content.js:475 getAllColumnHeaders
getAllColumnHeaders(tbls) ==
    {h \in UNION {{HeaderTexts(tbls[t])[i] : i \in 1..Len(tbls[t].head)} : t \in 1..Len(tbls)} :
        h # ""}

ClosedPanel == [open |-> FALSE, lensedCb |-> <<>>, origCb |-> <<>>]

\* content.js:738 createSettingsPanel: one checkbox per lensed key, one per
\* original header, checked from the configuration
createSettingsPanel(tbls, hidden, lensed) ==
    LET originalHeaders == {h \in getAllColumnHeaders(tbls) :
                               ~includes(h, "%(C)") /\ ~includes(h, "%(D)")}
    IN  [open |-> TRUE,
         lensedCb |-> [k \in LensedKeys |-> lensed[k]],
         origCb |-> [h \in originalHeaders |-> h \notin hidden]]

\* content.js:724 toggleSettingsPanel
toggleSettingsPanel(pnl, tbls, hidden, lensed) ==
    IF pnl.open THEN ClosedPanel ELSE createSettingsPanel(tbls, hidden, lensed)

DebounceMs == 500
InitialDelayMs == 1000
TickMs == DebounceMs \div 2

\* setTimeout: a handle no pending timer and no kept handle uses
FreshId(tms, kept) ==
    CHOOSE i \in 1..(Cardinality(tms) + 2) :
        /\ i # kept
        /\ \A t \in tms : t.id # i

setTimeout(tms, kept, kind, delay) ==
    tms \cup {[id |-> FreshId(tms, kept), kind |-> kind, left |-> delay]}

\* a clearTimeout that cancels nothing
clearTimeoutNothing(tms, id) == tms

clearTimeout(tms, id) == {t \in tms : t.id # id}

HasInjected(tbls) ==
    \E t \in 1..Len(tbls) :
        \/ \E i \in 1..Len(tbls[t].head) : IsInjected(tbls[t].head[i])
        \/ \E r \in 1..Len(tbls[t].rows) :
               \E i \in 1..Len(tbls[t].rows[r]) : IsInjected(tbls[t].rows[r][i])

(***************************************************************************)
(* Overlay dashboard: aggregation, pivot grid, CSV export                  *)
(***************************************************************************)
ZeroTuple == [dialed |-> Num(0), contacts |-> Num(0), appt |-> Num(0),
              lxfer |-> Num(0), success |-> Num(0)]

\* the search terms extractAllTableData passes to findColumnIndex
ExtractTerms == [dialed   |-> <<"dialed">>,
                 contacts |-> <<"contacts", "contact">>,
                 appt     |-> <<"appt", "appointment">>,
                 lxfer    |-> <<"lxfer", "live transfer">>,
                 success  |-> <<"success", "all success", "total success">>]

\* content.js:1342 the column indices for the lowercased header texts
RolesOf(headers) ==
    [userIdx |-> IF \E i \in 1..Len(headers) : headers[i] \in {"user", "agent"}
                 THEN MinOf({i \in 0..(Len(headers) - 1) : headers[i + 1] \in {"user", "agent"}})
                 ELSE -1,
     listIdx |-> IF \E i \in 1..Len(headers) : includes(headers[i], "list")
                 THEN MinOf({i \in 0..(Len(headers) - 1) : includes(headers[i + 1], "list")})
                 ELSE -1,
     dialedIdx |-> findColumnIndex(headers, ExtractTerms.dialed),
     contactsIdx |-> findColumnIndex(headers, ExtractTerms.contacts),
     apptIdx |-> findColumnIndex(headers, ExtractTerms.appt),
     lxferIdx |-> findColumnIndex(headers, ExtractTerms.lxfer),
     successIdx |-> findColumnIndex(headers, ExtractTerms.success)]

\* content.js:1341 the column indices of one table
ExtractRoles(table) ==
    RolesOf([i \in 1..Len(table.head) |-> toLowerCase(trim(table.head[i].text))])

\* cells[idx]?.innerText.trim() || fallback
TextOr(cells, idx, fallback) ==
    LET v == InnerText(cells, idx)
    IN  IF v.type = "string" /\ trim(v.str) # "" THEN trim(v.str) ELSE fallback

\* listName with the literal of the blank list cell used for a missing column too
RowListDefault(roles, cells) ==
    IF roles.listIdx # -1 THEN TextOr(cells, roles.listIdx, "Default") ELSE "Default"

\* content.js:1356 agentName, content.js:1357 listName
RowAgent(roles, cells) == TextOr(cells, roles.userIdx, "Unknown")
RowList(roles, cells) ==
    IF roles.listIdx # -1 THEN TextOr(cells, roles.listIdx, "Default") ELSE "All"

\* idx !== -1 ? parseNum(cells[idx]?.innerText) : 0
RoleValue(cells, idx) == IF idx # -1 THEN parseNum(InnerText(cells, idx)) ELSE Num(0)

\* content.js:1369 the five counters of a row
RowCounters(roles, cells) ==
    [dialed |-> RoleValue(cells, roles.dialedIdx),
     contacts |-> RoleValue(cells, roles.contactsIdx),
     appt |-> RoleValue(cells, roles.apptIdx),
     lxfer |-> RoleValue(cells, roles.lxferIdx),
     success |-> RoleValue(cells, roles.successIdx)]

AddTuple(a, b) ==
    [dialed |-> Add(a.dialed, b.dialed), contacts |-> Add(a.contacts, b.contacts),
     appt |-> Add(a.appt, b.appt), lxfer |-> Add(a.lxfer, b.lxfer),
     success |-> Add(a.success, b.success)]

\* position of the entry called name in an insertion-ordered Map, 0 when absent
IndexOfName(entries, name) ==
    LET hits == {i \in 1..Len(entries) : entries[i].name = name}
    IN  IF hits = {} THEN 0 ELSE MinOf(hits)

\* a per-list accumulation that stores the row instead of adding it
AddToListOverwrite(lists, listName, c) ==
    LET k == IndexOfName(lists, listName)
    IN  IF k = 0 THEN Append(lists, [name |-> listName, data |-> c])
        ELSE [lists EXCEPT ![k].data = c]

\* content.js:1376 agentData.lists after the has/set of listName
ListEntries(lists, listName) ==
    IF IndexOfName(lists, listName) = 0
    THEN Append(lists, [name |-> listName, data |-> ZeroTuple])
    ELSE lists

AddAt(lists, at, c) == [lists EXCEPT ![at].data = AddTuple(@, c)]

\* content.js:1376 "Aggregate per list"
AddToList(lists, listName, c) ==
    AddAt(ListEntries(lists, listName), IndexOfName(ListEntries(lists, listName), listName), c)

\* a totals accumulation that leaves the success counter out
AddToTotalsNoSuccess(totals, c) == [AddTuple(totals, c) EXCEPT !.success = totals.success]

\* content.js:1387 "Aggregate totals"
AddToTotals(totals, c) == AddTuple(totals, c)

\* content.js:1361 agents.get(agentName) after the has/set, at its position
AgentsWith(agents, agentName) ==
    IF IndexOfName(agents, agentName) = 0
    THEN Append(agents, [name |-> agentName, lists |-> <<>>, totals |-> ZeroTuple])
    ELSE agents

\* content.js:1359 lists.add(listName)
ListsWith(lists, listName) ==
    IF \E i \in 1..Len(lists) : lists[i] = listName THEN lists ELSE Append(lists, listName)

\* content.js:1375 the accumulation of one row's counters
Accumulate(agents, at, listName, c) ==
    [agents EXCEPT ![at] = [name |-> @.name,
                            lists |-> AddToList(@.lists, listName, c),
                            totals |-> AddToTotals(@.totals, c)]]

AccumulateRow(acc, agents, agentName, listName, c) ==
    [agents |-> Accumulate(agents, IndexOfName(agents, agentName), listName, c),
     lists |-> ListsWith(acc.lists, listName)]

\* content.js:1352 the body of the row loop
ExtractRow(acc, roles, cells) ==
    IF Len(cells) < 3 THEN acc
    ELSE AccumulateRow(acc, AgentsWith(acc.agents, RowAgent(roles, cells)),
                       RowAgent(roles, cells), RowList(roles, cells),
                       RowCounters(roles, cells))

\* the row loop ended by the first row of fewer than 3 cells
RECURSIVE ExtractRowsUntilShort(_, _, _, _)
ExtractRowsUntilShort(acc, roles, rows, r) ==
    IF r > Len(rows) \/ Len(rows[r]) < 3 THEN acc
    ELSE ExtractRowsUntilShort(ExtractRow(acc, roles, rows[r]), roles, rows, r + 1)

RECURSIVE ExtractRows(_, _, _, _)
ExtractRows(acc, roles, rows, r) ==
    IF r > Len(rows) THEN acc
    ELSE ExtractRows(ExtractRow(acc, roles, rows[r]), roles, rows, r + 1)

\* content.js:1350 the table is skipped without a user column
ExtractWith(acc, roles, rows) ==
    IF roles.userIdx = -1 THEN acc ELSE ExtractRows(acc, roles, rows, 1)

\* content.js:1335 the body of the table loop
ExtractTable(acc, table) ==
    IF Len(table.head) = 0 THEN acc ELSE ExtractWith(acc, ExtractRoles(table), table.rows)

RECURSIVE ExtractTables(_, _, _)
ExtractTables(acc, tbls, t) ==
    IF t > Len(tbls) THEN acc
    ELSE ExtractTables(ExtractTable(acc, tbls[t]), tbls, t + 1)

\* content.js:1331 extractAllTableData: agents and lists in insertion order
extractAllTableData(tbls) == ExtractTables([agents |-> <<>>, lists |-> <<>>], tbls, 1)

\* String(x) of a counter
NumText(x) ==
    IF isNaN(x) THEN "NaN"
    ELSE IF x.d = 0 THEN (IF x.n > 0 THEN "Infinity" ELSE "-Infinity")
    ELSE IF x.d = 1 THEN ToString(x.n)
    ELSE LET fs == {f \in 1..6 : (x.n * Pow10(f)) % x.d = 0}
         IN  toFixed(x, IF fs = {} THEN 6 ELSE MinOf(fs))

\* data.success || 0
SuccessOf(data) ==
    IF "success" \in DOMAIN data /\ ~isNaN(data.success) /\ data.success.n # 0
    THEN data.success ELSE Num(0)

\* content.js:1295 the seven percentages of renderMetricCells
MetricPercentages(data) ==
    [contactPct |-> Percent(data.contacts, data.dialed),
     apptPctC |-> Percent(data.appt, data.contacts),
     lxferPctC |-> Percent(data.lxfer, data.contacts),
     successPctC |-> Percent(SuccessOf(data), data.contacts),
     apptPctD |-> Percent(data.appt, data.dialed),
     lxferPctD |-> Percent(data.lxfer, data.dialed),
     successPctD |-> Percent(SuccessOf(data), data.dialed)]

PivotCell(t, c) == [text |-> t, cls |-> c, hid |-> FALSE]

\* x.toFixed(digits) + '%'
PctText(x, digits) == toFixed(x, digits) \o "%"

\* content.js:1312 the twelve cells for the percentages p
MetricCells(data, p, addDivider) ==
    <<PivotCell(NumText(data.dialed), IF addDivider THEN "ils-divider" ELSE ""),
      PivotCell(NumText(data.contacts), ""),
      PivotCell(PctText(p.contactPct, 1), "ils-pct"),
      PivotCell(NumText(data.appt), ""),
      PivotCell(PctText(p.apptPctC, 1), ""),
      PivotCell(PctText(p.apptPctD, 1), ""),
      PivotCell(NumText(data.lxfer), ""),
      PivotCell(PctText(p.lxferPctC, 1), ""),
      PivotCell(PctText(p.lxferPctD, 1), ""),
      PivotCell(NumText(SuccessOf(data)), ""),
      PivotCell(PctText(p.successPctC, 1), ""),
      PivotCell(PctText(p.successPctD, 1), "")>>

\* content.js:1294 renderMetricCells: the twelve cells of one block
renderMetricCells(data, addDivider) == MetricCells(data, MetricPercentages(data), addDivider)

\* the UTF-16 order of the printable ASCII characters (the grave accent is
\* left out; a character outside the table sorts after all of them)
Ascii == " !\"#$%&'()*+,-./0123456789:;<=>?@ABCDEFGHIJKLMNOPQRSTUVWXYZ[\\]^_abcdefghijklmnopqrstuvwxyz{|}~"
CodeOf(c) == LET hits == {i \in 1..Len(Ascii) : CharAt(Ascii, i) = c}
             IN  IF hits = {} THEN Len(Ascii) + 1 ELSE MinOf(hits)

RECURSIVE StrLessFrom(_, _, _)
StrLessFrom(a, b, i) ==
    IF i > Len(b) THEN FALSE
    ELSE IF i > Len(a) THEN TRUE
    ELSE IF CodeOf(CharAt(a, i)) # CodeOf(CharAt(b, i))
         THEN CodeOf(CharAt(a, i)) < CodeOf(CharAt(b, i))
    ELSE StrLessFrom(a, b, i + 1)

\* Array.prototype.sort() without a comparator
RECURSIVE SortStrings(_)
SortStrings(s) ==
    IF Len(s) <= 1 THEN s
    ELSE LET rest == SortStrings(Tail(s))
             before == SelectSeq(rest, LAMBDA x : StrLessFrom(x, Head(s), 1))
             after == SelectSeq(rest, LAMBDA x : ~StrLessFrom(x, Head(s), 1))
         IN  before \o <<Head(s)>> \o after

\* the agents left in the insertion order of the Map
SortAgentsNone(s) == s

\* sort((a, b) => b[1].totals.dialed - a[1].totals.dialed): stable, descending
RECURSIVE SortAgents(_)
SortAgents(s) ==
    IF Len(s) <= 1 THEN s
    ELSE LET rest == SortAgents(Tail(s))
             before == SelectSeq(rest, LAMBDA x : Gt(x.totals.dialed, Head(s).totals.dialed))
             after == SelectSeq(rest, LAMBDA x : ~Gt(x.totals.dialed, Head(s).totals.dialed))
         IN  before \o <<Head(s)>> \o after

\* content.js:1237 the list names of the pivot and of the export
ShownLists(data) == SortStrings(SelectSeq(data.lists, LAMBDA l : toLowerCase(l) # "all"))

\* content.js:1247 shortName
ShortName(list) == IF Len(list) > 25 THEN SubSeq(list, 1, 25) \o "..." ELSE list

RECURSIVE Flatten(_)
Flatten(ss) == IF Len(ss) = 0 THEN <<>> ELSE Head(ss) \o Flatten(Tail(ss))

\* agentData.lists.get(listName) || { dialed: 0, contacts: 0, appt: 0, lxfer: 0 }
ListDataOr(agentData, listName) ==
    LET k == IndexOfName(agentData.lists, listName)
    IN  IF k # 0 THEN agentData.lists[k].data
        ELSE [dialed |-> Num(0), contacts |-> Num(0), appt |-> Num(0), lxfer |-> Num(0)]

\* content.js:1270 the body rows of the pivot table
PivotRows(agents, lists) ==
    [a \in 1..Len(agents) |->
        <<PivotCell(agents[a].name, "ils-agent-cell")>> \o
        renderMetricCells(agents[a].totals, FALSE) \o
        Flatten([i \in 1..Len(lists) |->
                    renderMetricCells(ListDataOr(agents[a], lists[i]), TRUE)])]

\* content.js:1244 the first header row of the pivot table
PivotHead(lists) ==
    <<PivotCell("Agent", "ils-agent-cell"), PivotCell("TOTALS", "ils-list-header")>> \o
    [i \in 1..Len(lists) |-> PivotCell(ShortName(lists[i]), "ils-list-header")]

\* content.js:1244 the first header row and content.js:1272 the body rows of
\* the pivot table (the second header row is never read back by the script)
PivotTable(data) ==
    [head |-> PivotHead(ShownLists(data)),
     rows |-> PivotRows(SortAgents(data.agents), ShownLists(data))]

NoOverlay == [created |-> FALSE, visible |-> FALSE, loading |-> "", shown |-> FALSE]
EmptyPivot == [head |-> <<>>, rows |-> <<>>]

\* content.js:1232 populateOverlay after its extraction
PopulateWith(data, tbls, ov) ==
    IF Len(data.agents) = 0
    THEN [data |-> data, pivot |-> tbls[Len(tbls)],
          overlay |-> [ov EXCEPT !.shown = FALSE,
                           !.loading = "No agent data found. Make sure a report is loaded."]]
    ELSE [data |-> data, pivot |-> PivotTable(data), overlay |-> [ov EXCEPT !.shown = TRUE]]

\* content.js:1219 populateOverlay on the document's tables, the pivot table
\* being the last of them: the extracted data, the pivot table and the overlay
populateOverlay(tbls, ov) == PopulateWith(extractAllTableData(tbls), tbls, ov)

\* content.js:1426 the seven percentages of a CSV row
CsvPercentages(listData) ==
    [contactPct |-> Percent(listData.contacts, listData.dialed),
     apptPctC |-> Percent(listData.appt, listData.contacts),
     lxferPctC |-> Percent(listData.lxfer, listData.contacts),
     successPctC |-> Percent(SuccessOf(listData), listData.contacts),
     apptPctD |-> Percent(listData.appt, listData.dialed),
     lxferPctD |-> Percent(listData.lxfer, listData.dialed),
     successPctD |-> Percent(SuccessOf(listData), listData.dialed)]

RECURSIVE Join(_, _)
Join(fields, sep) ==
    IF Len(fields) = 0 THEN ""
    ELSE IF Len(fields) = 1 THEN Head(fields)
    ELSE Head(fields) \o sep \o Join(Tail(fields), sep)

\* content.js:1436 the fields of one line
CsvFields(agentName, listName, listData, p) ==
    <<"\"" \o agentName \o "\"", "\"" \o listName \o "\"",
      NumText(listData.dialed), NumText(listData.contacts), PctText(p.contactPct, 2),
      NumText(listData.appt), PctText(p.apptPctC, 2), PctText(p.apptPctD, 2),
      NumText(listData.lxfer), PctText(p.lxferPctC, 2), PctText(p.lxferPctD, 2),
      NumText(SuccessOf(listData)), PctText(p.successPctC, 2), PctText(p.successPctD, 2)>>

\* content.js:1436 one line of the export, without its line feed
CsvLine(agentName, listName, listData) ==
    Join(CsvFields(agentName, listName, listData, CsvPercentages(listData)), ",")

CsvHeader == "Agent,List,Dialed,Contacts,Contact%,APPT,APPT%(C),APPT%(D),LXFER,LXFER%(C),LXFER%(D),Success,SUCCESS%(C),SUCCESS%(D)"

\* the header line and a line for every list of every agent, "all" included
CsvOfEveryList(data) ==
    [data |-> data,
     csv |-> <<CsvHeader>> \o
             Flatten([a \in 1..Len(data.agents) |->
                         [i \in 1..Len(data.agents[a].lists) |->
                             CsvLine(data.agents[a].name, data.agents[a].lists[i].name,
                                     data.agents[a].lists[i].data)]])]

\* content.js:1421 the lines of one agent, the list "all" skipped
CsvLinesOf(agentName, kept) ==
    [i \in 1..Len(kept) |-> CsvLine(agentName, kept[i].name, kept[i].data)]

\* content.js:1419 the header line and the lines of every agent
CsvOf(data) ==
    [data |-> data,
     csv |-> <<CsvHeader>> \o
             Flatten([a \in 1..Len(data.agents) |->
                         CsvLinesOf(data.agents[a].name,
                                    SelectSeq(data.agents[a].lists,
                                              LAMBDA l : toLowerCase(l.name) # "all"))])]

\* content.js:1411 exportCSV: the lines of the exported text
exportCSV(tbls) == CsvOf(extractAllTableData(tbls))

(***************************************************************************)
(* Bounds of the model                                                     *)
(***************************************************************************)
MaxOps == 3      \* user and host operations in one run
MaxInj == 2      \* scan passes that insert cells in one run
MaxBurst == 3    \* the notification count of a burst saturates here

(***************************************************************************)
(* The page the host renders and the settings found in the store           *)
(***************************************************************************)
ReportTable == HostTable(<<"User", "Dialed", "Contacts", "APPT">>,
                         << <<"Alice", "100", "40", "10">> >>)
CallsTable == HostTable(<<"User", "Dialed", "LXFER">>,
                        << <<"Bob", "50", "5">> >>)
Pages == {<<ReportTable, CallsTable>>}

\* the checkboxes the user changes in a run
PanelKeys == {"apptContacts", "apptCalls", "lxferCalls"}
PanelHeaders == {"Dialed"}

StoredOptions ==
    {NoStore,
     StoreOf({}, [apptCalls |-> FALSE]),
     StoreOf({"Dialed"}, [DefaultLensed EXCEPT !["apptContacts"] = FALSE])}

PureIdle == "idle"

Min(a, b) == IF a < b THEN a ELSE b

(***************************************************************************)
(* The content script as a state machine. Init is the state when           *)
(* initialize() has returned: settings loaded, the initial scan scheduled, *)
(* the observer attached.                                                  *)
(***************************************************************************)
\* number of header cells of a table whose text is label
HeaderCount(table, label) ==
    Cardinality({i \in 1..Len(table.head) : trim(table.head[i].text) = label})

HeaderOf(key) ==
    Descriptors[CHOOSE i \in 1..Len(Descriptors) : Descriptors[i].lensedKey = key].headerText

\* History of one lensed key: switched off by its checkbox while its column
\* stood once in the tables that hold it (phase "off"), then switched on
\* again (phase "on"); n is the number of its header cells per table
NoCycle == [key |-> "", phase |-> "", n |-> <<>>]

CycleAfter(cycle, tbls, key, checked) ==
    LET n == [t \in 1..Len(tbls) |-> HeaderCount(tbls[t], HeaderOf(key))]
    IN  IF ~checked /\ (\E t \in 1..Len(tbls) : n[t] = 1) /\ (\A t \in 1..Len(tbls) : n[t] <= 1)
        THEN [key |-> key, phase |-> "off", n |-> n]
        ELSE IF checked /\ cycle.key = key /\ cycle.phase = "off"
        THEN [cycle EXCEPT !.phase = "on"]
        ELSE NoCycle

InitWith(track, stores) ==
    /\ tables \in Pages
    /\ stored \in stores
    /\ enabled = TRUE
    /\ hiddenColumns = loadSettings(stored).hiddenColumns
    /\ lensedColumns = loadSettings(stored).lensedColumns
    /\ columnsInjected = FALSE
    /\ panel = ClosedPanel
    /\ timers = setTimeout({}, 0, "initial", InitialDelayMs)
    /\ debounceTimer = 0
    /\ records = FALSE
    /\ task = 0
    /\ hist = [ops |-> 0, inj |-> 0, last |-> "initialize", host |-> tables,
               cycle |-> NoCycle, track |-> track, sinceNote |-> 0, burst |-> 0, burstScans |-> 0,
               fireAt |-> 0, fireOn |-> FALSE, saveFailed |-> FALSE]
    /\ overlay = NoOverlay
    /\ inp = PureIdle
    /\ out = PureIdle

Init == InitWith(FALSE, StoredOptions)

\* the same start with the watcher's history recorded
InitWatch == InitWith(TRUE, StoredOptions)

pureVars == <<overlay, inp, out>>
cfgVars == <<hiddenColumns, lensedColumns>>
timerVars == <<timers, debounceTimer>>

CanOp == ~records /\ hist.ops < MaxOps
Op(name) == [hist EXCEPT !.ops = @ + 1, !.last = name, !.cycle = NoCycle]
CanInject(res) == res.injected => hist.inj < MaxInj
Injected(h, res) == [h EXCEPT !.inj = IF res.injected THEN @ + 1 ELSE @]

\* The host re-renders table t: its cells are replaced by fresh ones
HostRender(t) ==
    /\ CanOp
    /\ tables' = [tables EXCEPT ![t] = hist.host[t]]
    /\ records' = TRUE
    /\ hist' = Op("host")
    /\ UNCHANGED <<enabled, cfgVars, columnsInjected, panel, stored, timerVars, task, pureVars>>

\* Any other childList mutation under document.body
HostMutation ==
    /\ CanOp
    /\ records' = TRUE
    /\ hist' = Op("host")
    /\ UNCHANGED <<tables, enabled, cfgVars, columnsInjected, panel, stored, timerVars,
                   task, pureVars>>

\* the callback as a throttle: a pending timeout is left to run, not restarted
observerNoRestart ==
    /\ records
    /\ LET pending == \E t \in timers : t.kind = "debounce"
       IN  /\ debounceTimer' = IF pending THEN debounceTimer ELSE FreshId(timers, debounceTimer)
           /\ timers' = IF pending THEN timers
                         ELSE setTimeout(timers, debounceTimer, "debounce", DebounceMs)
           /\ hist' = IF ~hist.track THEN [hist EXCEPT !.last = "observer"]
                      ELSE [hist EXCEPT !.last = "observer", !.sinceNote = 0,
                               !.burst = IF pending THEN Min(@ + 1, MaxBurst) ELSE 1,
                               !.burstScans = IF pending THEN @ ELSE 0]
    /\ records' = FALSE
    /\ UNCHANGED <<tables, enabled, cfgVars, columnsInjected, panel, stored, task, pureVars>>


\* the callback clearing the pending timeout without setting a new one
observerClearOnly ==
    /\ records
    /\ timers' = clearTimeout(timers, debounceTimer)
    /\ hist' = [hist EXCEPT !.last = "observer"]
    /\ records' = FALSE
    /\ UNCHANGED <<tables, enabled, cfgVars, columnsInjected, panel, stored, debounceTimer,
                   task, pureVars>>

\* content.js:916 the MutationObserver callback
observer ==
    /\ records
    /\ LET pending == \E t \in timers : t.kind = "debounce"
           cleared == clearTimeout(timers, debounceTimer)
       IN  /\ debounceTimer' = FreshId(cleared, debounceTimer)
           /\ timers' = setTimeout(cleared, debounceTimer, "debounce", DebounceMs)
           /\ hist' = IF ~hist.track THEN [hist EXCEPT !.last = "observer"]
                      ELSE [hist EXCEPT !.last = "observer", !.sinceNote = 0,
                               !.burst = IF pending THEN Min(@ + 1, MaxBurst) ELSE 1,
                               !.burstScans = IF pending THEN @ ELSE 0]
    /\ records' = FALSE
    /\ UNCHANGED <<tables, enabled, cfgVars, columnsInjected, panel, stored, task, pureVars>>

\* Time passes; a timer that is due fires first
Tick ==
    /\ ~records
    /\ timers # {}
    /\ \A t \in timers : t.left > 0
    /\ timers' = {[t EXCEPT !.left = @ - TickMs] : t \in timers}
    /\ hist' = [hist EXCEPT !.last = "tick",
                            !.sinceNote = IF hist.track THEN Min(@ + TickMs, DebounceMs) ELSE @]
    /\ UNCHANGED <<tables, enabled, cfgVars, columnsInjected, panel, stored, debounceTimer,
                   records, task, pureVars>>

\* content.js:1469 setTimeout(scanAndInject, 1000) fires
InitialScan ==
    /\ ~records
    /\ \E t \in timers :
        /\ t.kind = "initial" /\ t.left = 0
        /\ timers' = timers \ {t}
    /\ \E res \in {scanAndInject(tables, enabled, lensedColumns, hiddenColumns)} :
           /\ CanInject(res)
           /\ tables' = res.tables
           /\ columnsInjected' = (columnsInjected \/ res.injected)
           /\ records' = res.injected
           /\ hist' = Injected([hist EXCEPT !.last = "initial"], res)
    /\ UNCHANGED <<enabled, cfgVars, panel, stored, debounceTimer, task, pureVars>>

\* content.js:918 the debounce timeout fires
DebounceFire ==
    /\ ~records
    /\ \E t \in timers :
        /\ t.kind = "debounce" /\ t.left = 0
        /\ timers' = timers \ {t}
    /\ \E res \in {scanAndInject(tables, enabled, lensedColumns, hiddenColumns)} :
           /\ CanInject(res)
           /\ tables' = res.tables
           /\ columnsInjected' = (columnsInjected \/ res.injected)
           /\ records' = res.injected
           /\ hist' = Injected(IF ~hist.track THEN [hist EXCEPT !.last = "debounce"]
                                ELSE [hist EXCEPT !.last = "debounce",
                                         !.fireAt = hist.sinceNote, !.fireOn = enabled,
                                         !.burstScans = IF enabled THEN @ + 1 ELSE @], res)
    /\ UNCHANGED <<enabled, cfgVars, panel, stored, debounceTimer, task, pureVars>>

\* content.js:601 toggleInsightLens as far as the document, the flags and the
\* watcher are concerned
ToggleCase ==
    /\ CanOp
    /\ enabled' = ~enabled
    /\ \E res \in {IF enabled'
                   THEN scanAndInject(tables, TRUE, lensedColumns, hiddenColumns)
                   ELSE [tables |-> removeInjectedColumns(tables), injected |-> FALSE]} :
           /\ CanInject(res)
           /\ tables' = res.tables
           /\ columnsInjected' = IF enabled' THEN (columnsInjected \/ res.injected) ELSE FALSE
           /\ hist' = Injected(Op("toggle"), res)
    /\ records' = TRUE
    /\ UNCHANGED <<cfgVars, panel, stored, timerVars, task>>

\* content.js:950 removeInjectedColumns and scanAndInject of the refresh case
RefreshCase ==
    /\ CanOp
    /\ \E res \in {scanAndInject(removeInjectedColumns(tables), enabled,
                                   lensedColumns, hiddenColumns)} :
           /\ CanInject(res)
           /\ tables' = res.tables
           /\ columnsInjected' = res.injected
           /\ records' = (HasInjected(tables) \/ res.injected)
           /\ hist' = Injected(Op("refresh"), res)
    /\ UNCHANGED <<enabled, cfgVars, panel, stored, timerVars, task>>

\* content.js:601 toggleInsightLens (the On/Off button, the toggle command)
toggleInsightLens == ToggleCase /\ UNCHANGED pureVars

\* content.js:949 the refresh command
Refresh == RefreshCase /\ UNCHANGED pureVars
\* content.js:724 the Columns button and the panel's close button
TogglePanel ==
    /\ CanOp
    /\ panel' = toggleSettingsPanel(panel, tables, hiddenColumns, lensedColumns)
    /\ records' = TRUE
    /\ hist' = [hist EXCEPT !.ops = @ + 1, !.last = "panel"]
    /\ UNCHANGED <<tables, enabled, cfgVars, columnsInjected, stored, timerVars, task, pureVars>>

\* content.js:804 change handler of a lensed checkbox; rejects: the store
\* rejects the save
LensedCheckboxSave(key, rejects) ==
    /\ CanOp
    /\ panel.open
    /\ LET checked == ~panel.lensedCb[key]
       IN  /\ panel' = [panel EXCEPT !.lensedCb[key] = checked]
           /\ lensedColumns' = [lensedColumns EXCEPT ![key] = checked]
           /\ tables' = applyLensedColumnVisibility(tables, key, checked)
           /\ stored' = storageSet(stored, saveSettings(hiddenColumns, lensedColumns'), rejects)
           /\ hist' = [hist EXCEPT !.ops = @ + 1, !.last = "lensedCheckbox",
                                   !.cycle = CycleAfter(@, tables, key, checked),
                                   !.saveFailed = rejects]
    /\ UNCHANGED <<enabled, hiddenColumns, columnsInjected, timerVars, records, task, pureVars>>

LensedCheckbox(key) == LensedCheckboxSave(key, FALSE)

\* content.js:814 change handler of an original-column checkbox
OriginalCheckboxSave(header, rejects) ==
    /\ CanOp
    /\ panel.open
    /\ header \in DOMAIN panel.origCb
    /\ LET checked == ~panel.origCb[header]
       IN  /\ panel' = [panel EXCEPT !.origCb[header] = checked]
           /\ hiddenColumns' = IF checked THEN hiddenColumns \ {header}
                               ELSE hiddenColumns \cup {header}
           /\ tables' = applyOriginalColumnVisibility(tables, header, checked)
           /\ stored' = storageSet(stored, saveSettings(hiddenColumns', lensedColumns), rejects)
    /\ hist' = [Op("originalCheckbox") EXCEPT !.saveFailed = rejects]
    /\ UNCHANGED <<enabled, lensedColumns, columnsInjected, timerVars, records, task, pureVars>>

OriginalCheckbox(header) == OriginalCheckboxSave(header, FALSE)

\* content.js:877 applySettingsFromPanel up to its await; the function goes
\* on after the await when the promise of saveSettings is fulfilled
ApplySettingsSave(rejects) ==
    /\ CanOp
    /\ panel.open
    /\ task = 0
    /\ hiddenColumns' = {h \in DOMAIN panel.origCb : ~panel.origCb[h]}
    /\ lensedColumns' = [k \in LensedKeys |-> panel.lensedCb[k]]
    /\ stored' = storageSet(stored, saveSettings(hiddenColumns', lensedColumns'), rejects)
    /\ task' = IF saveSettled(rejects) = "fulfilled" THEN 1 ELSE 0
    /\ hist' = [Op("apply") EXCEPT !.saveFailed = rejects]
    /\ UNCHANGED <<tables, enabled, columnsInjected, panel, timerVars, records, pureVars>>

ApplySettings == ApplySettingsSave(FALSE)

\* content.js:898 applySettingsFromPanel after its await
ApplySettingsResume ==
    /\ ~records
    /\ task = 1
    /\ \E res \in {scanAndInject(removeInjectedColumns(tables), enabled,
                                   lensedColumns, hiddenColumns)} :
           /\ CanInject(res)
           /\ tables' = [t \in 1..Len(tables) |->
                            applyColumnVisibility(res.tables[t], lensedColumns, hiddenColumns)]
           /\ columnsInjected' = res.injected
           /\ hist' = Injected([hist EXCEPT !.last = "applied", !.cycle = NoCycle], res)
    /\ panel' = toggleSettingsPanel(panel, tables', hiddenColumns, lensedColumns)
    /\ records' = TRUE
    /\ task' = 0
    /\ UNCHANGED <<enabled, cfgVars, stored, timerVars, pureVars>>

\* Time passes until the next timer is due
Elapse ==
    /\ ~records
    /\ timers # {}
    /\ \A t \in timers : t.left > 0
    /\ LET d == CHOOSE d \in {t.left : t \in timers} : \A t \in timers : d <= t.left
       IN  /\ timers' = {[t EXCEPT !.left = @ - d] : t \in timers}
           /\ hist' = [hist EXCEPT !.last = "tick",
                                   !.sinceNote = IF hist.track THEN Min(@ + d, DebounceMs)
                                                 ELSE @]
    /\ UNCHANGED <<tables, enabled, cfgVars, columnsInjected, panel, stored, debounceTimer,
                   records, task, pureVars>>

\* The whole script: timers, watcher, commands and the settings panel
Next ==
    \/ \E t \in 1..2 : t <= Len(tables) /\ HostRender(t)
    \/ observer
    \/ Elapse
    \/ InitialScan
    \/ DebounceFire
    \/ toggleInsightLens
    \/ Refresh
    \/ TogglePanel
    \/ \E key \in PanelKeys : LensedCheckbox(key)
    \/ \E header \in PanelHeaders : OriginalCheckbox(header)
    \/ ApplySettings
    \/ ApplySettingsResume

Spec == Init /\ [][Next]_vars

\* The script with a settings store that may reject any save
NextSave ==
    \/ \E t \in 1..2 : t <= Len(tables) /\ HostRender(t)
    \/ observer
    \/ Elapse
    \/ InitialScan
    \/ DebounceFire
    \/ TogglePanel
    \/ \E key \in PanelKeys, rejects \in BOOLEAN : LensedCheckboxSave(key, rejects)
    \/ \E header \in PanelHeaders, rejects \in BOOLEAN : OriginalCheckboxSave(header, rejects)
    \/ \E rejects \in BOOLEAN : ApplySettingsSave(rejects)
    \/ ApplySettingsResume

SpecSave == Init /\ [][NextSave]_vars

(***************************************************************************)
(* The commands of the popup                                               *)
(***************************************************************************)
\* the stores of the command runs: none, every derived column switched off,
\* and the derived columns of the report table switched off
CmdStores ==
    {NoStore,
     StoreOf({}, [k \in LensedKeys |-> FALSE]),
     StoreOf({}, [DefaultLensed EXCEPT !["apptContacts"] = FALSE, !["apptCalls"] = FALSE])}

\* the requests the popup sends, and one with an action the handler does not
\* know; openOverlay is ShowOverlay of the aggregate view
Requests == {[action |-> a] : a \in {"toggle", "refresh", "getStatus", "setTheme"}}

\* a handler whose default case answers ok
ResponseAlwaysOk(action, on, injected) ==
    CASE action = "toggle" -> [status |-> "ok", enabled |-> on]
      [] action = "getStatus" -> [status |-> "ok", enabled |-> on, columnsInjected |-> injected]
      [] OTHER -> [status |-> "ok"]

\* content.js:930 the payload handed to sendResponse; on and injected are the
\* flags when the case has done its calls
Response(action, on, injected) ==
    CASE action = "toggle" -> [status |-> "ok", enabled |-> on]
      [] action = "getStatus" -> [status |-> "ok", enabled |-> on, columnsInjected |-> injected]
      [] action = "refresh" -> [status |-> "ok"]
      [] OTHER -> [status |-> "error", message |-> "Unknown action"]

\* content.js:929 the message listener: one case runs to its end and the
\* response is sent before the listener returns
onMessage(request) ==
    /\ inp' = request
    /\ overlay' = overlay
    /\ \/ request.action = "toggle" /\ ToggleCase
       \/ request.action = "refresh" /\ RefreshCase
       \/ /\ request.action \notin {"toggle", "refresh"}
          /\ CanOp
          /\ hist' = Op(IF request.action = "getStatus" THEN "getStatus" ELSE "unknown")
          /\ UNCHANGED <<tables, enabled, cfgVars, columnsInjected, panel, stored,
                         timerVars, records, task>>
    /\ out' = Response(request.action, enabled', columnsInjected')

NextCmd ==
    \/ \E t \in 1..2 : t <= Len(tables) /\ HostRender(t)
    \/ observer
    \/ Elapse
    \/ InitialScan
    \/ DebounceFire
    \/ \E request \in Requests : onMessage(request)
    \/ TogglePanel
    \/ \E key \in PanelKeys : LensedCheckbox(key)
    \/ ApplySettings
    \/ ApplySettingsResume

SpecCmd == InitWith(FALSE, CmdStores) /\ [][NextCmd]_vars

\* The change watcher against the clock: host mutations, the observer, the
\* two timers in steps of TickMs, the lens toggle and the refresh command
NextWatch ==
    \/ \E t \in 1..2 : t <= Len(tables) /\ HostRender(t)
    \/ HostMutation
    \/ observer
    \/ Tick
    \/ InitialScan
    \/ DebounceFire
    \/ toggleInsightLens
    \/ Refresh

SpecWatch == InitWatch /\ [][NextWatch]_vars

\* A host that keeps changing the document: one more childList mutation under
\* document.body, at any time and any number of times
HostKeepsMutating ==
    /\ ~records
    /\ records' = TRUE
    /\ hist' = [hist EXCEPT !.last = "host"]
    /\ UNCHANGED <<tables, enabled, cfgVars, columnsInjected, panel, stored, timerVars,
                   task, pureVars>>

NextLive == NextWatch \/ HostKeepsMutating

\* A timeout that is due fires and leaves the set of pending timers: the
\* steps InitialScan and DebounceFire, seen on the timers alone
TimerFires ==
    /\ ~records
    /\ \E t \in timers : t.left = 0 /\ timers' = timers \ {t}

\* The watcher with its scheduling: a queued MutationObserver callback is
\* delivered, time passes, a timeout that is due fires
SpecLive ==
    /\ InitWatch
    /\ [][NextLive]_vars
    /\ WF_vars(observer)
    /\ WF_vars(Tick)
    /\ WF_timers(TimerFires)

(***************************************************************************)
(* Column Injector and Visibility Policy on one table: every subset of the *)
(* five counter columns, every setting of the six lensed keys              *)
(***************************************************************************)
MaxPasses == 2   \* processTable calls in one run

CounterHeaders == <<"Dialed", "Contacts", "Status 'APPT", "LXFER", "All Success">>
SampleRows == << <<"Alice", "Sales", "100", "40", "10", "5", "30">>,
                 <<"Bob", "Sales", "50", "0", "3", "0", "0">>,
                 <<"Cy", "Ops", "30", "7", "2", "1", "3">> >>

\* the columns of cols kept in order, after the User and List columns
Pick(row, cols) ==
    SubSeq(row, 1, 2) \o
    [i \in 1..Cardinality({k \in cols : TRUE}) |->
        row[2 + CHOOSE k \in cols : Cardinality({j \in cols : j < k}) = i - 1]]

InjectTable(cols) ==
    HostTable(Pick(<<"User", "List">> \o CounterHeaders, cols),
              [r \in 1..Len(SampleRows) |-> Pick(SampleRows[r], cols)])

\* hiddenColumns as loadSettings can leave it: empty, one original header, an
\* original header right of the insertion points together with a derived label
HiddenChoices == {{}, {"User"}, {"LXFER", "APPT%(C)"}}

InitInject ==
    /\ tables \in {<<InjectTable(cols)>> : cols \in SUBSET (1..Len(CounterHeaders))}
    /\ lensedColumns \in [LensedKeys -> BOOLEAN]
    /\ hiddenColumns \in HiddenChoices
    /\ enabled = TRUE
    /\ columnsInjected = FALSE
    /\ panel = ClosedPanel
    /\ stored = NoStore
    /\ timers = {}
    /\ debounceTimer = 0
    /\ records = FALSE
    /\ task = 0
    /\ hist = [passes |-> 0, injections |-> 0, last |-> "init"]
    /\ overlay = NoOverlay
    /\ inp = PureIdle
    /\ out = PureIdle

\* processTable(table) on the table
ProcessTable ==
    /\ hist.passes < MaxPasses
    /\ \E res \in {processTable(tables[1], lensedColumns)} :
           /\ tables' = <<res.table>>
           /\ columnsInjected' = (columnsInjected \/ res.injected)
           /\ hist' = [passes |-> hist.passes + 1,
                       injections |-> hist.injections + (IF res.injected THEN 1 ELSE 0),
                       last |-> "processTable"]
    /\ UNCHANGED <<enabled, cfgVars, panel, stored, timerVars, records, task, pureVars>>

\* applyColumnVisibility(table) on the table
ApplyVisibility ==
    /\ hist.last = "processTable"
    /\ tables' = <<applyColumnVisibility(tables[1], lensedColumns, hiddenColumns)>>
    /\ hist' = [hist EXCEPT !.last = "applyColumnVisibility"]
    /\ UNCHANGED <<enabled, cfgVars, columnsInjected, panel, stored, timerVars, records,
                   task, pureVars>>

\* scanAndInject() on the page: processTable then applyColumnVisibility
ScanPass ==
    /\ hist.passes < MaxPasses
    /\ \E res \in {scanAndInject(tables, enabled, lensedColumns, hiddenColumns)} :
           /\ tables' = res.tables
           /\ columnsInjected' = (columnsInjected \/ res.injected)
           /\ hist' = [passes |-> hist.passes + 1,
                       injections |-> hist.injections + (IF res.injected THEN 1 ELSE 0),
                       last |-> "scanAndInject"]
    /\ UNCHANGED <<enabled, cfgVars, panel, stored, timerVars, records, task, pureVars>>

NextInject == ProcessTable \/ ApplyVisibility \/ ScanPass

SpecInject == InitInject /\ [][NextInject]_vars

(***************************************************************************)
(* The pure functions on enumerated arguments                              *)
(***************************************************************************)
MaxHeaders == 3  \* header cells in a row handed to findColumnIndex

MatcherHeaders == {"Contacts", "Contact Rate", " DIALED ", "Live Transfer", "User"}
MatcherTerms == {Columns.contacts, Columns.lxfer, Columns.dialed}
CounterValues == {-5, 0, 3, 40}

SeqsUpTo(S, n) == UNION {[1..k -> S] : k \in 0..n}

PureInputs ==
    {[fn |-> "findColumnIndex", headers |-> hs, terms |-> ts, counters |-> <<>>] :
        hs \in SeqsUpTo(MatcherHeaders, MaxHeaders), ts \in MatcherTerms}
    \cup
    {[fn |-> "percentages", headers |-> <<>>, terms |-> <<>>, counters |-> c] :
        c \in [dialed : CounterValues, contacts : CounterValues, appt : CounterValues,
               lxfer : CounterValues, success : CounterValues]}

\* what the store can hold at startup: nothing, or an entry with a hide-list
\* and the flags of any subset of the six keys (an older version's entry)
LoadStores ==
    {NoStore} \cup
    {StoreOf(h, m) : h \in {{}, {"Dialed"}},
                     m \in UNION {[K -> BOOLEAN] : K \in SUBSET LensedKeys}}

LoadInputs ==
    {[fn |-> "loadSettings", throws |-> t, store |-> st] :
        t \in BOOLEAN, st \in LoadStores}

\* the arguments of parseNum: a number text (or a text that is no number)
\* between decorations, and values that are no strings
ParseLeads == {"", " ", "$", "$ "}
ParseBodies ==
    {"", "0", "45", "1,200", "31.73", "-3", "+7", ".5", "5.", "1e3", "25E-1", "Infinity",
     "abc", "--", "N/A", ".", "-", "e5"}
ParseTrails == {"", "%", " ", " %", " calls", "x"}

ParseInputs ==
    {[fn |-> "parseNum", arg |-> JsStr(l \o b \o t), body |-> b] :
        l \in ParseLeads, b \in ParseBodies, t \in ParseTrails}
    \cup
    {[fn |-> "parseNum", arg |-> v, body |-> ""] :
        v \in {JsUndef, JsNull, JsNum(Num(0)), JsNum(Num(7))}}

\* pages of one report table for extractAllTableData, with cell texts that
\* carry a minus sign
SignedRows == {<<"Bob", "A", "10", "4", "1">>,
               <<"Bob", "A", "-3", "2", "0">>,
               <<"Ann", "B", "-12.5%", "0", "-1">>}

ExtractInputs ==
    {[fn |-> "extractAllTableData",
      page |-> <<HostTable(<<"User", "List", "Dialed", "Contacts", "APPT">>, rs)>>] :
        rs \in SeqsUpTo(SignedRows, 2) \ {<<>>}}

InitPure ==
    /\ inp \in PureInputs \cup LoadInputs \cup ParseInputs \cup ExtractInputs
    /\ out = [fn |-> "idle"]
    /\ tables = IF inp.fn = "extractAllTableData" THEN inp.page ELSE <<>>
    /\ enabled = TRUE
    /\ hiddenColumns = {}
    /\ lensedColumns = DefaultLensed
    /\ columnsInjected = FALSE
    /\ panel = ClosedPanel
    /\ stored = NoStore
    /\ timers = {}
    /\ debounceTimer = 0
    /\ records = FALSE
    /\ task = 0
    /\ overlay = NoOverlay
    /\ hist = [last |-> "init"]

restVars == <<tables, enabled, cfgVars, columnsInjected, panel, stored, timerVars, records,
              task, overlay, inp>>

\* findColumnIndex(headers, searchTerms)
FindColumnIndex ==
    /\ inp.fn = "findColumnIndex" /\ out.fn = "idle"
    /\ out' = [fn |-> "findColumnIndex", value |-> findColumnIndex(inp.headers, inp.terms)]
    /\ hist' = [last |-> "findColumnIndex"]
    /\ UNCHANGED restVars

\* the counters as the data cells of a report row and as an aggregation tuple
CounterCells(c) ==
    HostRow(<<"Alice", "Sales", ToString(c.dialed), ToString(c.contacts), ToString(c.appt),
              ToString(c.lxfer), ToString(c.success)>>)
CounterTuple(c) ==
    [dialed |-> Num(c.dialed), contacts |-> Num(c.contacts), appt |-> Num(c.appt),
     lxfer |-> Num(c.lxfer), success |-> Num(c.success)]

\* the calculate closures of processTable's six insertion requests on one row
CalculateCells ==
    /\ inp.fn = "percentages" /\ out.fn = "idle"
    /\ LET headers == <<"User", "List">> \o CounterHeaders
           idx == [r \in DOMAIN Columns |-> findColumnIndex(headers, Columns[r])]
           pct == [i \in 1..Len(Descriptors) |->
                      Calculate(CounterCells(inp.counters), idx[Descriptors[i].num],
                                idx[Descriptors[i].den])]
       IN  out' = [fn |-> "calculate", pct |-> pct,
                   text |-> [i \in 1..Len(Descriptors) |-> formatPct(pct[i])]]
    /\ hist' = [last |-> "calculate"]
    /\ UNCHANGED restVars

\* renderMetricCells(data) on the tuple
RenderMetricCells ==
    /\ inp.fn = "percentages" /\ out.fn = "idle"
    /\ out' = [fn |-> "renderMetricCells",
               pct |-> MetricPercentages(CounterTuple(inp.counters)),
               cells |-> Texts(renderMetricCells(CounterTuple(inp.counters), FALSE))]
    /\ hist' = [last |-> "renderMetricCells"]
    /\ UNCHANGED restVars

\* the row exportCSV writes for the tuple
ExportCsvRow ==
    /\ inp.fn = "percentages" /\ out.fn = "idle"
    /\ out' = [fn |-> "exportCSV",
               pct |-> CsvPercentages(CounterTuple(inp.counters)),
               line |-> CsvLine("Alice", "Sales", CounterTuple(inp.counters))]
    /\ hist' = [last |-> "exportCSV"]
    /\ UNCHANGED restVars

\* content.js:1461 await loadSettings() at startup
LoadSettings ==
    /\ inp.fn = "loadSettings" /\ out.fn = "idle"
    /\ \E res \in {loadSettingsCaught(inp.throws, inp.store)} :
           /\ hiddenColumns' = res.hiddenColumns
           /\ lensedColumns' = res.lensedColumns
    /\ stored' = inp.store
    /\ out' = [fn |-> "loadSettings"]
    /\ hist' = [last |-> "loadSettings"]
    /\ UNCHANGED <<tables, enabled, columnsInjected, panel, timerVars, records, task,
                   overlay, inp>>

\* parseNum(str)
ParseNum ==
    /\ inp.fn = "parseNum" /\ out.fn = "idle"
    /\ out' = [fn |-> "parseNum", value |-> parseNum(inp.arg)]
    /\ hist' = [last |-> "parseNum"]
    /\ UNCHANGED restVars

\* extractAllTableData()
ExtractAllTableData ==
    /\ inp.fn = "extractAllTableData" /\ out.fn = "idle"
    /\ out' = [fn |-> "extractAllTableData", value |-> extractAllTableData(tables)]
    /\ hist' = [last |-> "extractAllTableData"]
    /\ UNCHANGED restVars

NextPure ==
    \/ ExtractAllTableData
    \/ FindColumnIndex
    \/ CalculateCells
    \/ RenderMetricCells
    \/ ExportCsvRow
    \/ LoadSettings
    \/ ParseNum

SpecPure == InitPure /\ [][NextPure]_vars

(***************************************************************************)
(* The overlay dashboard over pages of two report tables                   *)
(***************************************************************************)
MaxRows == 2     \* body rows of the second table
MaxAggOps == 2   \* overlay operations and scan passes in one run

\* user, list, dialed, contacts, appt, lxfer, success of a host row
AggRows == {<<"Bob", "A", "10", "4", "1", "2", "3">>,
            <<"Bob", "B", "20", "0", "0", "1", "0">>,
            <<" Ann ", "", "1,200", "300", "30", "12", "6">>,
            <<"", "ALL", "5", "5", "5", "5", "5">>}

\* header text and the field of the host row shown under it
ListLayout == << <<"User", 1>>, <<"List", 2>>, <<"Dialed", 3>>, <<"Contacts", 4>>,
                 <<"APPT", 5>> >>
NoListLayout == << <<"Agent", 1>>, <<"Dialed", 3>>, <<"LXFER", 6>>, <<"Success", 7>> >>
NoUserLayout == << <<"Name", 1>>, <<"List", 2>>, <<"Dialed", 3>> >>
ShortLayout == << <<"User", 1>>, <<"List", 2>> >>

\* a table of the layout
AggTable(layout, rows) ==
    HostTable([i \in 1..Len(layout) |-> layout[i][1]],
              [r \in 1..Len(rows) |-> [i \in 1..Len(layout) |-> rows[r][layout[i][2]]]])

BobPage == <<AggTable(ListLayout, << <<"Bob", "A", "10", "4", "1", "2", "3">> >>),
             AggTable(ListLayout, << <<"Bob", "B", "20", "0", "0", "1", "0">> >>)>>

\* the table with its first body row cut to two cells (a spanning or summary row)
Ragged(table) == [table EXCEPT !.rows[1] = SubSeq(@, 1, 2)]

AggPages ==
    {<<AggTable(ListLayout, <<first>>), AggTable(layout, rows)>> :
        first \in AggRows,
        layout \in {ListLayout, NoListLayout, NoUserLayout, ShortLayout},
        rows \in SeqsUpTo(AggRows, MaxRows) \ {<<>>}}
    \cup
    {<<AggTable(ListLayout, <<first>>), Ragged(AggTable(ListLayout, rows))>> :
        first \in AggRows,
        rows \in {q \in SeqsUpTo(AggRows, MaxRows) : Len(q) >= 2}}

InitAgg ==
    /\ tables \in AggPages
    /\ enabled = TRUE
    /\ hiddenColumns = {}
    /\ lensedColumns = DefaultLensed
    /\ columnsInjected = FALSE
    /\ panel = ClosedPanel
    /\ stored = NoStore
    /\ timers = {}
    /\ debounceTimer = 0
    /\ records = FALSE
    /\ task = 0
    /\ overlay = NoOverlay
    /\ hist = [ops |-> 0, last |-> "init"]
    /\ inp = PureIdle
    /\ out = [fn |-> "idle"]

aggRest == <<enabled, cfgVars, panel, stored, timerVars, records, task, inp>>

\* a scan pass (initial, debounced or refresh) over every table of the document
AggScan ==
    /\ hist.ops < MaxAggOps
    /\ \E res \in {scanAndInject(tables, enabled, lensedColumns, hiddenColumns)} :
           /\ tables' = res.tables
           /\ columnsInjected' = (columnsInjected \/ res.injected)
    /\ hist' = [ops |-> hist.ops + 1, last |-> "scan"]
    /\ UNCHANGED <<aggRest, overlay, out>>

\* populateOverlay() with the overlay element ov in the document
Populate(doc, ov, name) ==
    \E res \in {populateOverlay(doc, ov)} :
        /\ tables' = [doc EXCEPT ![Len(doc)] = res.pivot]
        /\ overlay' = res.overlay
        /\ out' = [fn |-> "populateOverlay", data |-> res.data]
        /\ hist' = [ops |-> hist.ops + 1, last |-> name]

\* content.js:1187 showOverlay, creating the overlay on its first call
ShowOverlay ==
    /\ hist.ops < MaxAggOps
    /\ Populate(IF overlay.created THEN tables ELSE Append(tables, EmptyPivot),
                IF overlay.created THEN [overlay EXCEPT !.visible = TRUE]
                ELSE [created |-> TRUE, visible |-> TRUE, loading |-> "Loading data...",
                      shown |-> FALSE],
                "showOverlay")
    /\ UNCHANGED <<aggRest, columnsInjected>>

\* content.js:1197 hideOverlay
HideOverlay ==
    /\ hist.ops < MaxAggOps
    /\ overlay.visible
    /\ overlay' = [overlay EXCEPT !.visible = FALSE]
    /\ hist' = [ops |-> hist.ops + 1, last |-> "hideOverlay"]
    /\ UNCHANGED <<aggRest, tables, columnsInjected, out>>

\* content.js:1007 the overlay's refresh button
RefreshOverlay ==
    /\ hist.ops < MaxAggOps
    /\ overlay.visible
    /\ Populate(tables, overlay, "refreshOverlay")
    /\ UNCHANGED <<aggRest, columnsInjected>>

\* content.js:1008 the overlay's export button
ExportCSV ==
    /\ hist.ops < MaxAggOps
    /\ overlay.visible
    /\ \E res \in {exportCSV(tables)} :
           out' = [fn |-> "exportCSV", data |-> res.data, csv |-> res.csv]
    /\ hist' = [ops |-> hist.ops + 1, last |-> "exportCSV"]
    /\ UNCHANGED <<aggRest, tables, columnsInjected, overlay>>

NextAgg == AggScan \/ ShowOverlay \/ HideOverlay \/ RefreshOverlay \/ ExportCSV

SpecAgg == InitAgg /\ [][NextAgg]_vars

\* C1: processTable run twice in succession leaves the header row and every
\* body row as the first run left them: the second run inserts nothing.
C1_Idempotent ==
    [][(hist.last = "processTable" /\ hist'.last = "processTable") => tables' = tables]_vars

\* the role of a descriptor resolves in the table
Resolves(table, role) == findColumnIndex(HeaderTexts(table), Columns[role]) # -1

ScanJustDone == hist.last \in {"initial", "debounce", "refresh", "applied", "toggle"}

\* C2: with the lens enabled, when a scan pass has just completed, every
\* derived column whose key is enabled and whose numerator and denominator
\* roles resolve in a table stands exactly once in that table's header row.
C2_ExactlyOnce ==
    (enabled /\ ScanJustDone) =>
        \A t \in 1..Len(tables) : \A i \in 1..Len(Descriptors) :
            (/\ lensedColumns[Descriptors[i].lensedKey]
             /\ Resolves(tables[t], Descriptors[i].num)
             /\ Resolves(tables[t], Descriptors[i].den))
            => HeaderCount(tables[t], Descriptors[i].headerText) = 1

\* the header cells with this label and the body cells at their indices all
\* have display state hid
ColumnDisplayIs(table, label, hid) ==
    \A i \in 1..Len(table.head) :
        trim(table.head[i].text) = label =>
            /\ table.head[i].hid = hid
            /\ \A r \in 1..Len(table.rows) :
                   i <= Len(table.rows[r]) => table.rows[r][i].hid = hid

\* C3: a derived column switched off by its checkbox stays in the table,
\* hidden; switched on again it is shown, and however many re-scans follow,
\* each table holds as many copies of it as before (one).
C3_DisableHidesOnly ==
    hist.cycle.phase # "" =>
        \A t \in 1..Len(tables) :
            /\ HeaderCount(tables[t], HeaderOf(hist.cycle.key)) = hist.cycle.n[t]
            /\ ColumnDisplayIs(tables[t], HeaderOf(hist.cycle.key), hist.cycle.phase = "off")

DerivedLabels == {Descriptors[i].headerText : i \in 1..Len(Descriptors)}

\* the configuration hides the columns with this header text
ConfigHides(label) ==
    IF label \in DerivedLabels THEN ~lensedColumns[LensedKeyOf(label)]
    ELSE label \in hiddenColumns

\* the labels of table t that the configuration hides and that are hidden
HiddenLabels(table) ==
    {l \in {trim(table.head[i].text) : i \in 1..Len(table.head)} :
        ConfigHides(l) /\ ColumnDisplayIs(table, l, TRUE)}

\* C4: once a column is hidden through the visibility configuration, a later
\* scan pass leaves its header and data cells hidden and inserts no duplicate
\* of a derived column.
C4_RescanKeepsHidden ==
    [][(hist'.last \in {"initial", "debounce"} /\ enabled) =>
          \A t \in 1..Len(tables) :
              HiddenLabels(tables[t]) # {} =>
                  /\ \A l \in HiddenLabels(tables[t]) : ColumnDisplayIs(tables'[t], l, TRUE)
                  /\ \A d \in DerivedLabels :
                         HeaderCount(tables[t], d) >= 1 =>
                             HeaderCount(tables'[t], d) = HeaderCount(tables[t], d)]_vars

DebounceTimers == {t \in timers : t.kind = "debounce"}
ScanTimers == {t \in timers : t.kind \in {"initial", "debounce"}}

\* the debounce timeout of a burst of notifications has fired
BurstDone == hist.track /\ hist.burst >= 1 /\ hist.last = "debounce"

\* C8 as claimed: every burst of notifications ends in exactly one re-scan pass.
C8_OneRescanPerBurst == BurstDone => hist.burstScans = 1

\* C8 as amended: every notification cancels the pending debounce timeout and
\* starts one of 500 ms; the timeout fires only when 500 ms have passed without
\* a notification; a burst of notifications ends in one firing of the timeout,
\* which runs one re-scan pass when the lens is enabled at that moment and none
\* when it is disabled.
C8_DebounceCoalesces ==
    /\ hist.last = "observer" =>
           /\ Cardinality(DebounceTimers) = 1
           /\ \A t \in DebounceTimers : t.left = DebounceMs /\ t.id = debounceTimer
    /\ hist.last = "debounce" => hist.fireAt = DebounceMs
    /\ BurstDone =>
           /\ DebounceTimers = {}
           /\ hist.burstScans = IF hist.fireOn THEN 1 ELSE 0

\* a burst of several notifications has ended in its one re-scan
C8_Witness == BurstDone /\ hist.burst >= 2 /\ hist.fireOn /\ hist.burstScans = 1

GuardedPct(n, d) == IF d > 0 THEN Rat(100 * n, d) ELSE Num(0)

\* numerator and denominator of the percentages of the pivot and of the CSV
PivotMetrics == [apptPctC |-> <<"appt", "contacts">>, apptPctD |-> <<"appt", "dialed">>,
                 lxferPctC |-> <<"lxfer", "contacts">>, lxferPctD |-> <<"lxfer", "dialed">>,
                 successPctC |-> <<"success", "contacts">>,
                 successPctD |-> <<"success", "dialed">>,
                 contactPct |-> <<"contacts", "dialed">>]

ExtractSteps == {"showOverlay", "refreshOverlay", "exportCSV"}
Extracted == out.fn \in {"populateOverlay", "exportCSV"}

RECURSIVE SumSeq(_)
SumSeq(s) == IF Len(s) = 0 THEN ZeroTuple ELSE AddTuple(Head(s), SumSeq(Tail(s)))

\* C6: in the structure extractAllTableData returns, every agent's totals
\* tuple is the elementwise sum of the agent's per-list tuples, the "All"
\* bucket of tables without a list column included.
C6_TotalsAreListSums ==
    Extracted =>
        \A a \in 1..Len(out.data.agents) :
            out.data.agents[a].totals =
                SumSeq([l \in 1..Len(out.data.agents[a].lists) |->
                           out.data.agents[a].lists[l].data])

\* an agent counted under a named list and under the bucket of a table
\* without a list column
C6_Witness ==
    /\ Extracted
    /\ \E a \in 1..Len(out.data.agents) :
           /\ Len(out.data.agents[a].lists) >= 2
           /\ \E l \in 1..Len(out.data.agents[a].lists) :
                  out.data.agents[a].lists[l].name = "All"
           /\ Gt(out.data.agents[a].totals.dialed, Num(0))
           /\ Gt(out.data.agents[a].totals.success, Num(0))

\* the body rows extraction counts: rows of at least 3 cells in tables whose
\* header row has a user or agent column
Qualifying(tbls) ==
    {p \in (1..Len(tbls)) \X (1..(MaxRows + 1)) :
        /\ Len(tbls[p[1]].head) > 0
        /\ p[2] <= Len(tbls[p[1]].rows)
        /\ Len(tbls[p[1]].rows[p[2]]) >= 3
        /\ ExtractRoles(tbls[p[1]]).userIdx # -1}

\* agent name, list name and counters of the qualifying rows of tbls
RowInfos(tbls) ==
    {LET roles == ExtractRoles(tbls[p[1]])
         cells == tbls[p[1]].rows[p[2]]
     IN  [at |-> p, agent |-> RowAgent(roles, cells), list |-> RowList(roles, cells),
          c |-> RowCounters(roles, cells)] : p \in Qualifying(tbls)}

RECURSIVE SumInfos(_)
SumInfos(S) ==
    IF S = {} THEN ZeroTuple
    ELSE LET i == CHOOSE q \in S : TRUE
         IN  AddTuple(i.c, SumInfos(S \ {i}))

\* data holds one entry per agent name and list name of the qualifying rows
\* of tbls, each the sum of the counters of its rows
Folded(data, tbls) ==
    \E infos \in {RowInfos(tbls)} :
        /\ \A a, b \in 1..Len(data.agents) :
               data.agents[a].name = data.agents[b].name => a = b
        /\ \A a \in 1..Len(data.agents) : \A k, l \in 1..Len(data.agents[a].lists) :
               data.agents[a].lists[k].name = data.agents[a].lists[l].name => k = l
        /\ {data.agents[a].name : a \in 1..Len(data.agents)} = {i.agent : i \in infos}
        /\ UNION {{[agent |-> data.agents[a].name, list |-> data.agents[a].lists[l].name,
                    data |-> data.agents[a].lists[l].data] :
                       l \in 1..Len(data.agents[a].lists)} : a \in 1..Len(data.agents)}
           = {[agent |-> k[1], list |-> k[2],
               data |-> SumInfos({i \in infos : i.agent = k[1] /\ i.list = k[2]})] :
                  k \in {<<i.agent, i.list>> : i \in infos}}

\* the tables of the document without the overlay's pivot table
ReportTables == IF overlay.created THEN SubSeq(tables, 1, Len(tables) - 1) ELSE tables

\* C7: every per-list tuple of an extraction is the elementwise sum of the
\* parsed counters of all qualifying rows, in all tables of the document,
\* with that agent name and list name; Bob with list A (dialed 10) in one
\* table and list B (dialed 20) in another has one entry with totals.dialed 30.
C7_CrossTableFolding ==
    [][hist'.last \in ExtractSteps =>
          /\ Folded(out'.data, tables)
          /\ ReportTables = BobPage =>
                 /\ Len(out'.data.agents) = 1
                 /\ out'.data.agents[1].name = "Bob"
                 /\ out'.data.agents[1].totals.dialed = Num(30)]_vars

\* Bob's two tables have been folded into one entry with both lists
C7_Witness ==
    /\ Extracted
    /\ ReportTables = BobPage
    /\ Len(out.data.agents) = 1
    /\ Len(out.data.agents[1].lists) = 2
    /\ out.data.agents[1].totals.dialed = Num(30)

\* C10 as claimed: findColumnIndex returns the first header containing the
\* highest-ranked term that matches any header, -1 when no term matches.
C10_TermPriority ==
    out.fn = "findColumnIndex" => out.value = FindByTerm(inp.headers, inp.terms, 1)

\* C10 as amended: findColumnIndex returns the index of the first header in
\* document order whose lowercased, trimmed text contains any of the terms,
\* whatever the term's rank, and -1 when no header contains any term.
C10_FirstMatchingHeader ==
    out.fn = "findColumnIndex" =>
        LET matches(h) == \E k \in 1..Len(inp.terms) :
                              includes(trim(toLowerCase(h)), toLowerCase(inp.terms[k]))
            hits == {i \in 0..(Len(inp.headers) - 1) : matches(inp.headers[i + 1])}
        IN  IF hits = {} THEN out.value = -1
            ELSE out.value \in hits /\ \A j \in hits : out.value <= j

\* an earlier header holds a lower-ranked term only, a later one the
\* highest-ranked term
C10_Witness ==
    /\ out.fn = "findColumnIndex"
    /\ out.value >= 0
    /\ out.value < FindByTerm(inp.headers, inp.terms, 1)

(***************************************************************************)
(* Claims on the scan pass and the visibility policy (SpecInject)          *)
(***************************************************************************)
\* neither the contacts role nor the dialed role resolves on the table
NoBasis(table) ==
    /\ findColumnIndex(HeaderTexts(table), Columns.contacts) = -1
    /\ findColumnIndex(HeaderTexts(table), Columns.dialed) = -1

\* the cell without its display state
Content(cell) == [text |-> cell.text, cls |-> cell.cls]
SameContent(t1, t2) ==
    /\ Len(t1.head) = Len(t2.head)
    /\ \A i \in 1..Len(t1.head) : Content(t1.head[i]) = Content(t2.head[i])
    /\ Len(t1.rows) = Len(t2.rows)
    /\ \A r \in 1..Len(t1.rows) :
           /\ Len(t1.rows[r]) = Len(t2.rows[r])
           /\ \A i \in 1..Len(t1.rows[r]) : Content(t1.rows[r][i]) = Content(t2.rows[r][i])

\* C11 as claimed: a scan pass over a table on which neither the contacts nor
\* the dialed role resolves leaves the table as it was: same cells, same order,
\* same display state of every cell.
C11_SchemaInsufficiencyNoOp ==
    [][(hist'.last = "scanAndInject" /\ NoBasis(tables[1])) => tables' = tables]_vars

\* C11 as amended: on such a table processTable changes nothing, and a scan
\* pass inserts, removes and reorders no cell and changes no text or class; the
\* pass still applies the visibility policy, so that afterwards a header is
\* hidden exactly when its text is in hiddenColumns, with its cell of every row.
C11_SchemaInsufficiencyKeepsCells ==
    [][NoBasis(tables[1]) =>
         /\ hist'.last = "processTable" => tables' = tables
         /\ hist'.last = "scanAndInject" =>
               /\ SameContent(tables[1], tables'[1])
               /\ \A i \in 1..Len(tables'[1].head) :
                      /\ tables'[1].head[i].hid =
                             (trim(tables'[1].head[i].text) \in hiddenColumns)
                      /\ \A r \in 1..Len(tables'[1].rows) :
                             tables'[1].rows[r][i].hid = tables'[1].head[i].hid]_vars

\* a scan pass over a table with numerator columns but neither contacts nor
\* dialed has hidden the stored hidden column User
C11_Witness ==
    /\ hist.last = "scanAndInject"
    /\ NoBasis(tables[1])
    /\ Len(tables[1].head) = 5
    /\ tables[1].head[1].hid
    /\ \A r \in 1..Len(tables[1].rows) : tables[1].rows[r][1].hid

\* a scan pass has just applied the visibility policy to every table
PolicyApplied ==
    enabled /\ hist.last \in {"initial", "debounce", "toggle", "refresh", "applied"}

\* the shown/hidden state the configuration gives to a header text
PolicyHides(label) ==
    IF \E d \in 1..Len(Descriptors) : Descriptors[d].headerText = label
    THEN \E d \in 1..Len(Descriptors) :
             Descriptors[d].headerText = label /\ ~lensedColumns[Descriptors[d].lensedKey]
    ELSE label \in hiddenColumns

\* C12: after applyColumnVisibility(table) every header whose text is one of
\* the six derived labels is shown exactly when lensedColumns[key] is true,
\* every other header is shown exactly when its text is not in hiddenColumns,
\* and in every body row the cell at the same index has its header's state.
C12_VisibilityPolicy ==
    PolicyApplied =>
        \A t \in 1..Len(tables) : \A i \in 1..Len(tables[t].head) :
            /\ tables[t].head[i].hid = PolicyHides(trim(tables[t].head[i].text))
            /\ \A r \in 1..Len(tables[t].rows) :
                   i <= Len(tables[t].rows[r]) =>
                       tables[t].rows[r][i].hid = tables[t].head[i].hid

\* a pass has hidden a derived column whose key is off and an original column
\* of the hide-list, and shows another derived column
C12_Witness ==
    /\ PolicyApplied
    /\ \E t \in 1..Len(tables) : \E i, j, k \in 1..Len(tables[t].head) :
           /\ IsInjected(tables[t].head[i]) /\ tables[t].head[i].hid
           /\ IsInjected(tables[t].head[j]) /\ ~tables[t].head[j].hid
           /\ ~IsInjected(tables[t].head[k]) /\ tables[t].head[k].hid
           /\ \A r \in 1..Len(tables[t].rows) :
                  /\ tables[t].rows[r][i].hid
                  /\ ~tables[t].rows[r][j].hid
                  /\ tables[t].rows[r][k].hid

\* the headers of the sample report and the host value of a row under a header
InjectHeaders == <<"User", "List">> \o CounterHeaders
HostValue(r, headerText) ==
    SampleRows[r][CHOOSE k \in 1..Len(InjectHeaders) : InjectHeaders[k] = headerText]

\* the cell of body row r at the index of header i belongs to that header: the
\* derived cell of the same descriptor, or the host value of that column
BelongsTo(table, r, i) ==
    IF IsInjected(table.head[i])
    THEN table.rows[r][i].cls = table.head[i].cls
    ELSE /\ table.rows[r][i].cls = ""
         /\ table.rows[r][i].text = HostValue(r, table.head[i].text)

VisibilityDerived == hist.last \in {"scanAndInject", "applyColumnVisibility"}

LowerHead(table, i) == toLowerCase(trim(table.head[i].text))
HasUserRole(table) ==
    \E i \in 1..Len(table.head) : LowerHead(table, i) \in {"user", "agent"}
HasListRole(table) ==
    \E i \in 1..Len(table.head) : includes(LowerHead(table, i), "list")
UserCol(table) ==
    MinOf({i \in 1..Len(table.head) : LowerHead(table, i) \in {"user", "agent"}})
ListCol(table) ==
    MinOf({i \in 1..Len(table.head) : includes(LowerHead(table, i), "list")})

\* the trimmed text of the cell of body row r under header i, "" without a cell
CellText(table, r, i) ==
    IF i <= Len(table.rows[r]) THEN trim(table.rows[r][i].text) ELSE ""
OrElse(text, fallback) == IF text = "" THEN fallback ELSE text

AgentNameOf(table, r) == OrElse(CellText(table, r, UserCol(table)), "Unknown")
\* bucket is the partition name of a table without a list column
ListNameOf(table, r, bucket) ==
    IF HasListRole(table) THEN OrElse(CellText(table, r, ListCol(table)), "Default")
    ELSE bucket

\* the body rows that count: at least 3 cells, in a table with an agent column
Counted(tbls) ==
    {p \in (1..Len(tbls)) \X (1..(MaxRows + 1)) :
        /\ HasUserRole(tbls[p[1]])
        /\ p[2] <= Len(tbls[p[1]].rows)
        /\ Len(tbls[p[1]].rows[p[2]]) >= 3}

\* the dialed counter of a body row, 0 without a dialed column
DialedOf(table, r) ==
    IF \E i \in 1..Len(table.head) : includes(LowerHead(table, i), "dialed")
    THEN parseNum(InnerText(table.rows[r],
             MinOf({i \in 1..Len(table.head) : includes(LowerHead(table, i), "dialed")}) - 1))
    ELSE Num(0)

RECURSIVE SumDialed(_, _)
SumDialed(tbls, S) ==
    IF S = {} THEN Num(0)
    ELSE LET p == CHOOSE q \in S : TRUE
         IN  Add(DialedOf(tbls[p[1]], p[2]), SumDialed(tbls, S \ {p}))

RECURSIVE SumTotalsDialed(_)
SumTotalsDialed(agents) ==
    IF Len(agents) = 0 THEN Num(0)
    ELSE Add(Head(agents).totals.dialed, SumTotalsDialed(Tail(agents)))

\* Only the tables with an agent column contribute agents, lists and counters,
\* and each counted row of a table without a list column is under bucket
PartitionRule(data, tbls, bucket) ==
    \E rows \in {Counted(tbls)} :
        /\ {data.agents[a].name : a \in 1..Len(data.agents)}
               = {AgentNameOf(tbls[p[1]], p[2]) : p \in rows}
        /\ {data.lists[l] : l \in 1..Len(data.lists)}
               = {ListNameOf(tbls[p[1]], p[2], bucket) : p \in rows}
        /\ \A p \in rows : \E a \in 1..Len(data.agents) :
               /\ data.agents[a].name = AgentNameOf(tbls[p[1]], p[2])
               /\ \E l \in 1..Len(data.agents[a].lists) :
                      data.agents[a].lists[l].name = ListNameOf(tbls[p[1]], p[2], bucket)
        /\ SumTotalsDialed(data.agents) = SumDialed(tbls, rows)

\* C14 as claimed: a table without an agent/user column is skipped entirely by
\* extraction; a table with an agent/user column and no list column contributes
\* all its rows under the partition name "Default".
C14_DefaultPartition ==
    [][hist'.last \in ExtractSteps => PartitionRule(out'.data, tables, "Default")]_vars

\* C14 as amended: a table without an agent/user column is skipped entirely; a
\* table with an agent/user column and no list column contributes all its rows
\* of at least 3 cells under the partition name "All"; "Default" is the name
\* for a blank cell of an existing list column only.
C14_AllPartition ==
    [][hist'.last \in ExtractSteps => PartitionRule(out'.data, tables, "All")]_vars

\* an extraction over a page whose second table has an Agent column and no
\* list column: its rows are under "All", nothing is under "Default"
C14_Witness ==
    /\ Extracted
    /\ hist.ops = 1
    /\ HasUserRole(tables[2]) /\ ~HasListRole(tables[2])
    /\ \E l \in 1..Len(out.data.lists) : out.data.lists[l] = "All"
    /\ \A l \in 1..Len(out.data.lists) : out.data.lists[l] # "Default"

\* the counter of body row r for the search terms: the parsed text of the cell
\* under the first header containing one of the terms, 0 without such a header
CounterOf(table, r, terms) ==
    LET hits == {i \in 1..Len(table.head) :
                    \E k \in 1..Len(terms) : includes(LowerHead(table, i), terms[k])}
    IN  IF hits = {} THEN Num(0)
        ELSE parseNum(InnerText(table.rows[r], MinOf(hits) - 1))

CountersOf(table, r) == [k \in DOMAIN ExtractTerms |-> CounterOf(table, r, ExtractTerms[k])]

RECURSIVE SumCounters(_, _)
SumCounters(tbls, S) ==
    IF S = {} THEN ZeroTuple
    ELSE LET p == CHOOSE q \in S : TRUE
         IN  AddTuple(CountersOf(tbls[p[1]], p[2]), SumCounters(tbls, S \ {p}))

\* the extraction counts exactly the rows of at least 3 cells, each under its
\* agent name or "Unknown" and its list name or "Default", with 0 for a
\* counter that has no column
RowRules(data, tbls) ==
    \E rows \in {Counted(tbls)} :
        /\ \A a \in 1..Len(data.agents) :
               /\ data.agents[a].totals =
                      SumCounters(tbls, {p \in rows :
                          AgentNameOf(tbls[p[1]], p[2]) = data.agents[a].name})
               /\ \A l \in 1..Len(data.agents[a].lists) :
                      data.agents[a].lists[l].data =
                          SumCounters(tbls, {p \in rows :
                              /\ AgentNameOf(tbls[p[1]], p[2]) = data.agents[a].name
                              /\ ListNameOf(tbls[p[1]], p[2], "All")
                                     = data.agents[a].lists[l].name})
        /\ \A p \in rows : \E a \in 1..Len(data.agents) :
               /\ data.agents[a].name = AgentNameOf(tbls[p[1]], p[2])
               /\ CellText(tbls[p[1]], p[2], UserCol(tbls[p[1]])) = ""
                      => data.agents[a].name = "Unknown"
               /\ \E l \in 1..Len(data.agents[a].lists) :
                      /\ data.agents[a].lists[l].name = ListNameOf(tbls[p[1]], p[2], "All")
                      /\ (/\ HasListRole(tbls[p[1]])
                          /\ CellText(tbls[p[1]], p[2], ListCol(tbls[p[1]])) = "")
                             => data.agents[a].lists[l].name = "Default"

\* C15: a body row with fewer than 3 cells contributes nothing and does not
\* stop the pass; a row with a blank agent cell is counted under "Unknown", a
\* row with a blank list cell under "Default"; a counter whose role column is
\* not found in the table contributes 0.
C15_RowRules ==
    [][hist'.last \in ExtractSteps => RowRules(out'.data, tables)]_vars

\* Ann's row with a blank list cell is under "Default" with 0 for the missing
\* lxfer and success columns; the second table starts with a row of two cells
\* and its next row, with a blank agent cell, is counted under "Unknown"
C15_Witness ==
    /\ Extracted
    /\ hist.ops = 1
    /\ Len(tables[2].rows) = 2
    /\ Len(tables[2].rows[1]) = 2
    /\ tables[2].rows[2][1].text = ""
    /\ Len(out.data.agents) = 2
    /\ out.data.agents[1].name = "Ann"
    /\ out.data.agents[1].lists[1].name = "Default"
    /\ out.data.agents[1].totals =
           [dialed |-> Num(1200), contacts |-> Num(300), appt |-> Num(30),
            lxfer |-> Num(0), success |-> Num(0)]
    /\ out.data.agents[2].name = "Unknown"
    /\ out.data.agents[2].totals.dialed = Num(5)

(***************************************************************************)
(* Claims on the pivot view and the CSV export (SpecAgg)                   *)
(***************************************************************************)
\* the (agent, list) pairs of an aggregation whose list is not "all"
KeptPairs(data) ==
    {p \in (1..Len(data.agents)) \X (1..(2 * MaxRows + 2)) :
        /\ p[2] <= Len(data.agents[p[1]].lists)
        /\ toLowerCase(data.agents[p[1]].lists[p[2]].name) # "all"}

Quoted(name) == "\"" \o name \o "\""

\* the CSV line that carries the values as the pivot view renders them
LineOfPivotBlock(agentName, list) ==
    Join(<<Quoted(agentName), Quoted(list.name)>> \o Texts(renderMetricCells(list.data, TRUE)),
         ",")

\* C16: for the same extracted aggregation every (agent, list) percentage of
\* the pivot view and the corresponding percentage of the CSV export are
\* computed by the same formula and rendered to the same precision (two
\* decimals followed by %), so the rendered values are equal.
C16_PivotCsvAgree ==
    out.fn = "exportCSV" =>
        \A p \in KeptPairs(out.data) : \E k \in 2..Len(out.csv) :
            out.csv[k] = LineOfPivotBlock(out.data.agents[p[1]].name,
                                          out.data.agents[p[1]].lists[p[2]])

RECURSIVE StartsWithFrom(_, _, _)
StartsWithFrom(text, prefix, i) ==
    IF i > Len(prefix) THEN TRUE
    ELSE IF i > Len(text) THEN FALSE
    ELSE CharAt(text, i) = CharAt(prefix, i) /\ StartsWithFrom(text, prefix, i + 1)
StartsWith(text, prefix) == StartsWithFrom(text, prefix, 1)

\* the two leading fields of the CSV line of an (agent, list) pair
PairKey(data, p) ==
    Quoted(data.agents[p[1]].name) \o "," \o Quoted(data.agents[p[1]].lists[p[2]].name) \o ","

\* C17: exportCSV emits the fixed header line followed by exactly one data row
\* for every (agent, list) pair of the aggregation whose list name is not "all"
\* (case-insensitive), and no row for an absent pair or for the list "all".
C17_CsvRows ==
    out.fn = "exportCSV" =>
        \E kept \in {KeptPairs(out.data)} :
            /\ out.csv[1] = CsvHeader
            /\ Len(out.csv) = 1 + Cardinality(kept)
            /\ \A p \in kept :
                   Cardinality({k \in 2..Len(out.csv) :
                                   StartsWith(out.csv[k], PairKey(out.data, p))}) = 1
            /\ \A k \in 2..Len(out.csv) :
                   /\ \E p \in kept : StartsWith(out.csv[k], PairKey(out.data, p))
                   /\ ~\E a \in 1..Len(out.data.agents) :
                          \/ StartsWith(out.csv[k], Quoted(out.data.agents[a].name) \o ",\"All\",")
                          \/ StartsWith(out.csv[k], Quoted(out.data.agents[a].name) \o ",\"ALL\",")

\* an export of an aggregation that holds pairs under "All" and "ALL" next to
\* two pairs under other lists: a header line and two data rows
C17_Witness ==
    /\ out.fn = "exportCSV"
    /\ \E a, b \in 1..Len(out.data.agents) :
           /\ \E l \in 1..Len(out.data.agents[a].lists) :
                  out.data.agents[a].lists[l].name = "All"
           /\ \E l \in 1..Len(out.data.agents[b].lists) :
                  out.data.agents[b].lists[l].name = "ALL"
    /\ Cardinality(KeptPairs(out.data)) = 2
    /\ Len(out.csv) = 3

\* the pivot table of the overlay, the last table of the document
Pivot == tables[Len(tables)]
PivotRendered == out.fn = "populateOverlay" /\ overlay.shown

\* the distinct list names of the aggregation without "all" in any case
PivotLists(data) ==
    {data.lists[l] : l \in {k \in 1..Len(data.lists) : toLowerCase(data.lists[k]) # "all"}}

\* the twelve cell texts of block b (0 the totals block) of pivot row r
BlockTexts(r, b) == Texts(SubSeq(Pivot.rows[r], 2 + 12 * b, 13 + 12 * b))

ZeroBlock == <<"0", "0", "0.0%", "0", "0.0%", "0.0%", "0", "0.0%", "0.0%", "0", "0.0%", "0.0%">>

\* the counters a block shows are those of the tuple
ShowsCounters(texts, data) ==
    /\ texts[1] = NumText(data.dialed)
    /\ texts[2] = NumText(data.contacts)
    /\ texts[4] = NumText(data.appt)
    /\ texts[7] = NumText(data.lxfer)
    /\ texts[10] = NumText(data.success)

\* the entry of the aggregation shown in pivot row r
AgentOfRow(data, r) ==
    data.agents[CHOOSE a \in 1..Len(data.agents) :
                    data.agents[a].name = Pivot.rows[r][1].text]

\* C18: populateOverlay renders one row per agent, ordered by totals.dialed
\* descending, each row a totals block followed by one block per distinct list
\* name in sorted order, the "all" list excluded; an agent with no data for a
\* list gets a block of zero counters and 0 percentages for that list.
C18_PivotShape ==
    PivotRendered =>
        \E names \in {PivotLists(out.data)} :
            /\ Len(Pivot.rows) = Len(out.data.agents)
            /\ {Pivot.rows[r][1].text : r \in 1..Len(Pivot.rows)}
                   = {out.data.agents[a].name : a \in 1..Len(out.data.agents)}
            /\ \A r \in 1..(Len(Pivot.rows) - 1) :
                   ~Gt(AgentOfRow(out.data, r + 1).totals.dialed,
                       AgentOfRow(out.data, r).totals.dialed)
            /\ Len(Pivot.head) = 2 + Cardinality(names)
            /\ Pivot.head[1].text = "Agent" /\ Pivot.head[2].text = "TOTALS"
            /\ {Pivot.head[i].text : i \in 3..Len(Pivot.head)} = names
            /\ \A i \in 3..(Len(Pivot.head) - 1) :
                   StrLessFrom(Pivot.head[i].text, Pivot.head[i + 1].text, 1)
            /\ \A r \in 1..Len(Pivot.rows) :
                   /\ Len(Pivot.rows[r]) = 1 + 12 * (1 + Cardinality(names))
                   /\ ShowsCounters(BlockTexts(r, 0), AgentOfRow(out.data, r).totals)
                   /\ \A b \in 1..Cardinality(names) :
                          \E agent \in {AgentOfRow(out.data, r)} :
                              IF \E l \in 1..Len(agent.lists) :
                                     agent.lists[l].name = Pivot.head[2 + b].text
                              THEN \A l \in 1..Len(agent.lists) :
                                       agent.lists[l].name = Pivot.head[2 + b].text
                                           => ShowsCounters(BlockTexts(r, b),
                                                            agent.lists[l].data)
                              ELSE BlockTexts(r, b) = ZeroBlock

\* a row with a blank agent cell (dialed 5, list ALL) was extracted before Ann
\* (dialed 1,200, blank list): the pivot shows Ann first, one list block
\* Default, and zeros in that block for Unknown
C18_Witness ==
    /\ PivotRendered
    /\ Len(out.data.agents) = 2
    /\ out.data.agents[1].name = "Unknown" /\ out.data.agents[2].name = "Ann"
    /\ out.data.lists = <<"ALL", "Default">>
    /\ Texts(Pivot.head) = <<"Agent", "TOTALS", "Default">>
    /\ Pivot.rows[1][1].text = "Ann" /\ Pivot.rows[2][1].text = "Unknown"
    /\ BlockTexts(1, 0)[1] = "1200"
    /\ BlockTexts(2, 0)[1] = "5"
    /\ BlockTexts(2, 1) = ZeroBlock

(***************************************************************************)
(* Claims on the injected columns (SpecInject)                             *)
(***************************************************************************)
\* a header of the table contains one of the search terms of the role
RoleFound(table, role) ==
    \E i \in 1..Len(table.head) : \E k \in 1..Len(Columns[role]) :
        includes(toLowerCase(trim(table.head[i].text)), toLowerCase(Columns[role][k]))

\* the table passes the guards of processTable
PassesGuards(table) ==
    /\ Len(table.head) > 0
    /\ ~\E i \in 1..Len(table.head) : \E m \in {"APPT%(C)", "LXFER%(C)", "SUCCESS%(C)"} :
           includes(trim(table.head[i].text), m)
    /\ RoleFound(table, "contacts") \/ RoleFound(table, "dialed")

\* the descriptors a pass over the table has to insert
Due(table) ==
    {d \in 1..Len(Descriptors) :
        /\ RoleFound(table, Descriptors[d].num)
        /\ RoleFound(table, Descriptors[d].den)
        /\ lensedColumns[Descriptors[d].lensedKey]}

CountIn(row, d) ==
    Cardinality({i \in 1..Len(row) : row[i].cls = Descriptors[d].cssClass})
LabelsIn(row, d) ==
    Cardinality({i \in 1..Len(row) :
                    /\ row[i].cls = Descriptors[d].cssClass
                    /\ row[i].text = Descriptors[d].headerText})

\* C19: on a table that passes the guards, processTable inserts a derived
\* column for exactly those of the six descriptors whose numerator role
\* resolves, whose denominator role resolves and whose enabled flag is true at
\* the time of the pass, and for no other descriptor.
C19_InjectedSet ==
    [][(hist'.last \in {"processTable", "scanAndInject"} /\ PassesGuards(tables[1])) =>
          \E due \in {Due(tables[1])} :
              /\ Len(tables'[1].head) = Len(tables[1].head) + Cardinality(due)
              /\ \A d \in 1..Len(Descriptors) :
                     /\ LabelsIn(tables'[1].head, d)
                            = LabelsIn(tables[1].head, d) + (IF d \in due THEN 1 ELSE 0)
                     /\ \A r \in 1..Len(tables[1].rows) :
                            CountIn(tables'[1].rows[r], d)
                                = CountIn(tables[1].rows[r], d)
                                      + (IF d \in due THEN 1 ELSE 0)]_vars

\* a first pass over a table with Dialed, Status 'APPT, LXFER and All Success
\* and no Contacts column, APPT%(D) switched off and the three (C) columns
\* switched on: LXFER%(D) and SUCCESS%(D) are in, nothing else
C19_Witness ==
    /\ hist.last = "processTable" /\ hist.passes = 1 /\ hist.injections = 1
    /\ Texts(tables[1].head) = <<"User", "List", "Dialed", "Status 'APPT", "LXFER",
                                  "LXFER%(D)", "All Success", "SUCCESS%(D)">>
    /\ ~lensedColumns["apptCalls"]
    /\ lensedColumns["apptContacts"] /\ lensedColumns["lxferContacts"]
    /\ lensedColumns["successContacts"]

\* the counters of the sample rows as numbers
SampleCounts ==
    << [dialed |-> 100, contacts |-> 40, appt |-> 10, lxfer |-> 5, success |-> 30],
       [dialed |-> 50, contacts |-> 0, appt |-> 3, lxfer |-> 0, success |-> 0],
       [dialed |-> 30, contacts |-> 7, appt |-> 2, lxfer |-> 1, success |-> 3] >>

TwoDigits(n) == IF n < 10 THEN "0" \o ToString(n) ELSE ToString(n)

\* num / den * 100 to two decimals (half up) with %, 0.00% for den = 0
PctOf(num, den) ==
    LET hundredths == IF den > 0 THEN (20000 * num + den) \div (2 * den) ELSE 0
    IN  ToString(hundredths \div 100) \o "." \o TwoDigits(hundredths % 100) \o "%"

\* the text of the derived cell of descriptor d in sample row r
DerivedText(r, d) ==
    PctOf(SampleCounts[r][Descriptors[d].num], SampleCounts[r][Descriptors[d].den])

PassDone == hist.last \in {"processTable", "scanAndInject", "applyColumnVisibility"}

\* C20: in every body row that receives derived cells, the cell inserted for
\* a descriptor holds pct(numerator, denominator) of that same row's cells with
\* two decimals and %: dialed 100, contacts 40, appt 10 gives APPT%(C) 25.00%
\* and APPT%(D) 10.00%; contacts 0, dialed 50, appt 3 gives 0.00% and 6.00%.
C20_RowLocalValues ==
    PassDone =>
        /\ \A r \in 1..Len(tables[1].rows) : \A i \in 1..Len(tables[1].rows[r]) :
               \A d \in 1..Len(Descriptors) :
                   tables[1].rows[r][i].cls = Descriptors[d].cssClass
                       => tables[1].rows[r][i].text = DerivedText(r, d)
        /\ \A i \in 1..Len(tables[1].head) :
               /\ tables[1].head[i].text = "APPT%(C)" =>
                      /\ tables[1].rows[1][i].text = "25.00%"
                      /\ tables[1].rows[2][i].text = "0.00%"
               /\ tables[1].head[i].text = "APPT%(D)" =>
                      /\ tables[1].rows[1][i].text = "10.00%"
                      /\ tables[1].rows[2][i].text = "6.00%"

\* all six columns inserted: the rows of Alice, Bob and Cy hold their own
\* APPT%(C) and APPT%(D)
C20_Witness ==
    /\ PassDone
    /\ Len(tables[1].head) = Len(InjectHeaders) + Len(Descriptors)
    /\ tables[1].head[6].text = "APPT%(C)" /\ tables[1].head[7].text = "APPT%(D)"
    /\ tables[1].rows[1][6].text = "25.00%" /\ tables[1].rows[1][7].text = "10.00%"
    /\ tables[1].rows[2][6].text = "0.00%" /\ tables[1].rows[2][7].text = "6.00%"
    /\ tables[1].rows[3][6].text = "28.57%" /\ tables[1].rows[3][7].text = "6.67%"

(***************************************************************************)
(* Claims on the position of the inserted cells (SpecInject)               *)
(***************************************************************************)
\* the descriptor a derived cell was created for
DescriptorOf(cell) == CHOOSE d \in 1..Len(Descriptors) : Descriptors[d].cssClass = cell.cls

\* the header text belongs to the role: it contains one of its search terms
IsRoleHeader(text, role) ==
    \E k \in 1..Len(Columns[role]) :
        includes(toLowerCase(trim(text)), toLowerCase(Columns[role][k]))

\* the position of the nearest host-created cell left of position i, 0 if none
HostLeftOf(row, i) ==
    IF \E j \in 1..(i - 1) : ~IsInjected(row[j])
    THEN CHOOSE j \in 1..(i - 1) :
             ~IsInjected(row[j]) /\ \A k \in (j + 1)..(i - 1) : IsInjected(row[k])
    ELSE 0

\* the host-created cells of the table are those of the sample report, in order
HostOrderKept(table) ==
    /\ \E cols \in SUBSET (1..Len(CounterHeaders)) :
           /\ Texts(SelectSeq(table.head, LAMBDA c : ~IsInjected(c)))
                  = Pick(InjectHeaders, cols)
           /\ \A r \in 1..Len(table.rows) :
                  Texts(SelectSeq(table.rows[r], LAMBDA c : ~IsInjected(c)))
                      = Pick(SampleRows[r], cols)

\* C21 as claimed: after a pass every injected derived header cell sits
\* immediately after the header cell of its numerator role, every derived data
\* cell immediately after its row's numerator cell, and the original cells
\* keep their relative order.
C21_ImmediatelyAfterNumerator ==
    PassDone =>
        /\ HostOrderKept(tables[1])
        /\ \A i \in 1..Len(tables[1].head) :
               IsInjected(tables[1].head[i]) =>
                   /\ i > 1
                   /\ ~IsInjected(tables[1].head[i - 1])
                   /\ IsRoleHeader(tables[1].head[i - 1].text,
                                   Descriptors[DescriptorOf(tables[1].head[i])].num)
                   /\ \A r \in 1..Len(tables[1].rows) :
                          /\ tables[1].rows[r][i].cls = tables[1].head[i].cls
                          /\ ~IsInjected(tables[1].rows[r][i - 1])

\* C21 as amended: after a pass the derived cells of one numerator form an
\* unbroken run that starts immediately after the numerator's header cell (in
\* a body row: after that row's numerator cell), the (C) cell before the (D)
\* cell when both are inserted; the original cells keep their relative order.
C21_RunAfterNumerator ==
    PassDone =>
        /\ HostOrderKept(tables[1])
        /\ \A i \in 1..Len(tables[1].head) :
               IsInjected(tables[1].head[i]) =>
                   \E h \in {HostLeftOf(tables[1].head, i)} :
                       /\ h > 0
                       /\ IsRoleHeader(tables[1].head[h].text,
                                       Descriptors[DescriptorOf(tables[1].head[i])].num)
                       /\ \A j \in (h + 1)..(i - 1) :
                              /\ Descriptors[DescriptorOf(tables[1].head[j])].num
                                     = Descriptors[DescriptorOf(tables[1].head[i])].num
                              /\ Descriptors[DescriptorOf(tables[1].head[i])].den = "contacts"
                                     => Descriptors[DescriptorOf(tables[1].head[j])].den
                                            = "contacts"
                       /\ \A r \in 1..Len(tables[1].rows) :
                              /\ tables[1].rows[r][i].cls = tables[1].head[i].cls
                              /\ HostLeftOf(tables[1].rows[r], i) = h

\* all six columns inserted in one pass: each numerator is followed by its (C)
\* column and then its (D) column
C21_Witness ==
    /\ PassDone
    /\ hist.injections = 1
    /\ Texts(tables[1].head) =
           <<"User", "List", "Dialed", "Contacts", "Status 'APPT", "APPT%(C)", "APPT%(D)",
             "LXFER", "LXFER%(C)", "LXFER%(D)", "All Success", "SUCCESS%(C)", "SUCCESS%(D)">>
    /\ Texts(tables[1].rows[1]) =
           <<"Alice", "Sales", "100", "40", "10", "25.00%", "10.00%",
             "5", "12.50%", "5.00%", "30", "75.00%", "30.00%">>

(***************************************************************************)
(* Scan passes over a table whose body the host changes (SpecRows): the    *)
(* sample report with or without a summary row of two cells, the host      *)
(* replacing or adding body rows under the header row it keeps             *)
(***************************************************************************)
MaxRowOps == 3   \* passes, removals and host changes in one run

\* a summary row of the host: two cells, the second one spanning the counters
SummaryRow == HostRow(<<"Total", "3 agents">>)

RowsTable(cols, summary) ==
    IF summary
    THEN [InjectTable(cols) EXCEPT !.rows = Append(@, SummaryRow)]
    ELSE InjectTable(cols)

\* all six columns, or the three (D) columns only
RowsLensed == {DefaultLensed,
               [k \in LensedKeys |-> k \in {"apptCalls", "lxferCalls", "successCalls"}]}

InitRows ==
    /\ tables \in {<<RowsTable(cols, summary)>> :
                      cols \in SUBSET (1..Len(CounterHeaders)), summary \in BOOLEAN}
    /\ lensedColumns \in RowsLensed
    /\ hiddenColumns \in {{}, {"LXFER"}}
    /\ enabled = TRUE
    /\ columnsInjected = FALSE
    /\ panel = ClosedPanel
    /\ stored = NoStore
    /\ timers = {}
    /\ debounceTimer = 0
    /\ records = FALSE
    /\ task = 0
    /\ hist = [ops |-> 0, last |-> "init", host |-> tables, before |-> tables]
    /\ overlay = NoOverlay
    /\ inp = PureIdle
    /\ out = PureIdle

rowsRest == <<enabled, cfgVars, panel, stored, timerVars, records, task, pureVars>>
RowsOp(name) == [hist EXCEPT !.ops = @ + 1, !.last = name, !.before = tables]

\* scanAndInject() over the page
RowsScan ==
    /\ hist.ops < MaxRowOps
    /\ \E res \in {scanAndInject(tables, enabled, lensedColumns, hiddenColumns)} :
           /\ tables' = res.tables
           /\ columnsInjected' = (columnsInjected \/ res.injected)
    /\ hist' = RowsOp("scanAndInject")
    /\ UNCHANGED rowsRest

\* removeInjectedColumns()
RowsRemove ==
    /\ hist.ops < MaxRowOps
    /\ tables' = removeInjectedColumns(tables)
    /\ columnsInjected' = FALSE
    /\ hist' = RowsOp("removeInjectedColumns")
    /\ UNCHANGED rowsRest

\* the host renders the body again: fresh rows under the header row it keeps
HostReplacesRows ==
    /\ hist.ops < MaxRowOps
    /\ tables' = <<[tables[1] EXCEPT !.rows = hist.host[1].rows]>>
    /\ hist' = RowsOp("hostRows")
    /\ UNCHANGED <<rowsRest, columnsInjected>>

\* the host adds a body row (the next page of the report)
HostAddsRow ==
    /\ hist.ops < MaxRowOps
    /\ tables' = <<[tables[1] EXCEPT !.rows = Append(@, hist.host[1].rows[1])]>>
    /\ hist' = RowsOp("hostRows")
    /\ UNCHANGED <<rowsRest, columnsInjected>>

NextRows == RowsScan \/ RowsRemove \/ HostReplacesRows \/ HostAddsRow

SpecRows == InitRows /\ [][NextRows]_vars

\* the derived cells of a row
DerivedIn(row) == {i \in 1..Len(row) : IsInjected(row[i])}
\* the host-created cells of a row
HostCells(row) == SelectSeq(row, LAMBDA c : ~IsInjected(c))

\* the body row has fewer host cells than the header row has host headers
IsPartialRow(table, r) == Len(HostCells(table.rows[r])) < Len(HostCells(table.head))

\* C22: during injection a body row that has fewer cells than the header
\* expects is skipped, i.e. receives no derived cell, while all other rows of
\* the table are still processed.
C22_PartialRowSkipped ==
    [][hist'.last = "scanAndInject" =>
          \A r \in 1..Len(tables[1].rows) :
              IF IsPartialRow(tables[1], r)
              THEN HostCells(tables'[1].rows[r]) = tables'[1].rows[r]
              ELSE Cardinality(DerivedIn(tables'[1].rows[r]))
                       - Cardinality(DerivedIn(tables[1].rows[r]))
                   = Cardinality(DerivedIn(tables'[1].head))
                       - Cardinality(DerivedIn(tables[1].head))]_vars

(***************************************************************************)
(* Claims on the settings store and the numeric parser (SpecPure)          *)
(***************************************************************************)
\* the store answered and holds an entry
StoreRead == ~inp.throws /\ inp.store.present

\* C23: after loadSettings the derived-enabled map contains all six keys; each
\* key has the stored value when the store holds one and the default true
\* otherwise; when the store is unavailable or throws, the hidden list is
\* empty and all six keys are true.
C23_LoadSettings ==
    out.fn = "loadSettings" =>
        /\ LensedKeys \subseteq DOMAIN lensedColumns
        /\ \A k \in LensedKeys :
               lensedColumns[k] = IF StoreRead /\ k \in DOMAIN inp.store.lensedColumns
                                  THEN inp.store.lensedColumns[k] ELSE TRUE
        /\ hiddenColumns = IF StoreRead THEN inp.store.hiddenColumns ELSE {}

\* an entry written by an older version (two keys, one of them false) has been
\* merged over the defaults
C23_Witness ==
    /\ out.fn = "loadSettings"
    /\ StoreRead
    /\ DOMAIN inp.store.lensedColumns = {"apptContacts", "apptCalls"}
    /\ hiddenColumns = {"Dialed"}
    /\ {k \in LensedKeys : ~lensedColumns[k]} = {"apptCalls"}

\* the user operations that mutate the visibility configuration
ConfigMutations == {"lensedCheckbox", "originalCheckbox", "apply"}

\* the store holds exactly the configuration in memory
StoreCarries(store, hidden, lensed) ==
    /\ store.present
    /\ store.hiddenColumns = hidden
    /\ \A k \in LensedKeys : store.lensedColumns[k] = lensed[k]

\* C24: every user mutation of the visibility configuration (a derived-column
\* checkbox change, an original-column checkbox change, Apply & Save) is
\* followed by a save that carries the configuration as mutated, and the store
\* ends with the value of the last save: the configuration changes in these
\* three operations only, and after each of them the store holds the new
\* configuration, whatever it held before.
C24_WriteBack ==
    [][LET mutation == hist'.last \in ConfigMutations /\ hist'.ops = hist.ops + 1
           changed == \/ hiddenColumns' # hiddenColumns
                      \/ lensedColumns' # lensedColumns
                      \/ stored' # stored
       IN  /\ (changed => mutation)
           /\ (mutation => StoreCarries(stored', hiddenColumns', lensedColumns'))]_vars

\* the panel was opened and two checkbox changes followed; the store holds
\* what the second save carried
C24_Witness ==
    /\ hist.ops = 3
    /\ hist.last = "lensedCheckbox"
    /\ stored.present
    /\ stored.hiddenColumns # {}
    /\ \E k \in LensedKeys : ~stored.lensedColumns[k]
    /\ StoreCarries(stored, hiddenColumns, lensedColumns)

\* the number each body text of the parseNum arguments stands for, written out
\* by hand; a text that holds no number stands for 0
BodyValue ==
    [b \in ParseBodies |->
        CASE b = "45" -> [n |-> 45, d |-> 1]
          [] b = "1,200" -> [n |-> 1200, d |-> 1]
          [] b = "31.73" -> [n |-> 3173, d |-> 100]
          [] b = "-3" -> [n |-> -3, d |-> 1]
          [] b = "+7" -> [n |-> 7, d |-> 1]
          [] b = ".5" -> [n |-> 1, d |-> 2]
          [] b = "5." -> [n |-> 5, d |-> 1]
          [] b = "1e3" -> [n |-> 1000, d |-> 1]
          [] b = "25E-1" -> [n |-> 5, d |-> 2]
          [] b = "Infinity" -> [n |-> 1, d |-> 0]
          [] OTHER -> [n |-> 0, d |-> 1]]

\* C25: parseNum is total: it returns 0 for an absent value, an empty string,
\* a non-string value and a string that does not parse as a number after
\* removing %, $ and thousands separators, and otherwise returns the parsed
\* number (the number at the start of the cleaned, trimmed text).
C25_ParseNumTotal ==
    out.fn = "parseNum" =>
        /\ out.value \in [n : Int, d : Nat]
        /\ ~isNaN(out.value)
        /\ out.value = IF inp.arg.type = "string" THEN BodyValue[inp.body]
                       ELSE [n |-> 0, d |-> 1]

\* "$1,200 %" has been parsed as 1200
C25_Witness ==
    /\ out.fn = "parseNum"
    /\ inp.arg = JsStr("$1,200 %")
    /\ out.value = [n |-> 1200, d |-> 1]

(***************************************************************************)
(* Claims on the cells of the host (Spec)                                  *)
(***************************************************************************)
\* the cells of a row that carry no class, as texts: the host writes its cells
\* without a class
Unclassed(row) == Texts(SelectSeq(row, LAMBDA c : c.cls = ""))

\* the host's cells stand in the table as the host rendered them, in order
HostCellsKept(table, host) ==
    /\ Unclassed(table.head) = Texts(host.head)
    /\ Len(table.rows) = Len(host.rows)
    /\ \A r \in 1..Len(host.rows) : Unclassed(table.rows[r]) = Texts(host.rows[r])

\* the lens has just been switched off, which removes the injected columns
JustRemoved == hist.last = "toggle" /\ ~enabled

\* C26: no engine operation (inject, visibility, remove, toggle, refresh,
\* Apply & Save) removes or reorders a host-created cell, and
\* removeInjectedColumns removes exactly the cells the engine inserted:
\* after injecting and removing, every header row and body row is the
\* original sequence of cells.
C26_HostCellsUntouched ==
    \A t \in 1..Len(tables) :
        /\ HostCellsKept(tables[t], hist.host[t])
        /\ JustRemoved => SameContent(tables[t], hist.host[t])

\* columns were injected by a pass and then removed by switching the lens off
C26_Witness ==
    /\ JustRemoved
    /\ hist.inj >= 1
    /\ hist.ops = 1
    /\ \A t \in 1..Len(tables) : SameContent(tables[t], hist.host[t])

\* the five counters of the tuple are numbers greater than or equal to 0
NonNegative(tuple) ==
    \A k \in {"dialed", "contacts", "appt", "lxfer", "success"} :
        ~isNaN(tuple[k]) /\ tuple[k].n >= 0

\* C27: in every aggregation returned by extractAllTableData all five counters
\* of every per-list tuple and of every totals tuple are greater than or equal
\* to 0, for every cell text the host tables can contain.
C27_CountersNonNegative ==
    out.fn = "extractAllTableData" =>
        \A a \in 1..Len(out.value.agents) :
            /\ NonNegative(out.value.agents[a].totals)
            /\ \A l \in 1..Len(out.value.agents[a].lists) :
                   NonNegative(out.value.agents[a].lists[l].data)

(***************************************************************************)
(* Claims on the watcher's liveness (SpecLive)                             *)
(***************************************************************************)
\* the run has used up the scan passes that insert cells
InjectionsSpent == hist.inj = MaxInj

\* the debounce timeout has just fired
Fired == hist.last = "debounce"

\* a pass that has inserted cells leaves a notification for the watcher
PassNotifies ==
    [][(hist'.last \in {"initial", "debounce"} /\ hist'.inj # hist.inj) => records']_vars

\* C28 as claimed: a structural mutation, the insertions of a pass included,
\* always causes a later debounce cycle, so a re-scan eventually runs after
\* every mutation.
C28_RescanAfterEveryMutation == records ~> (Fired \/ InjectionsSpent)

\* C28: a structural mutation, the insertions of a pass included, is not
\* handled inside the pass: it is notified after the pass and restarts the
\* debounce timeout, and the timeout fires (running the re-scan when the lens
\* is enabled) unless a later mutation restarts it first.
C28_RescanAfterLastMutation ==
    /\ PassNotifies
    /\ records ~> (hist.last = "observer")
    /\ (hist.last = "observer") ~> (Fired \/ records \/ InjectionsSpent)

\* the debounce timeout has fired after the insertions of the initial pass,
\* with no operation of the user or the host before it
C28_Witness ==
    /\ Fired
    /\ hist.fireOn
    /\ hist.ops = 0
    /\ hist.inj >= 1

\* number of derived columns of the table
DerivedColumns(table) == Cardinality(DerivedIn(table.head))

\* neither the host nor the user has acted since the page was loaded
HostQuiet == hist.ops = 0

\* C29: once the host document stops mutating, the feedback loop between the
\* watcher and the injector terminates and the number of derived columns of
\* every table stays constant: on a page that neither the host nor the user
\* touches, a pass that follows a pass which inserted makes no structural
\* change.
C29_Quiescence ==
    [][(HostQuiet /\ hist'.ops = 0 /\ hist.inj >= 1) =>
           \A t \in 1..Len(tables) :
               DerivedColumns(tables'[t]) = DerivedColumns(tables[t])]_vars

(***************************************************************************)
(* Claims on the rows the host renders anew (SpecRows)                     *)
(***************************************************************************)
\* the body row holds exactly one derived cell for each derived header cell,
\* at the index of that header and of its descriptor
AlignedRow(table, r) ==
    /\ DerivedIn(table.rows[r]) = DerivedIn(table.head)
    /\ \A i \in DerivedIn(table.head) : table.rows[r][i].cls = table.head[i].cls

\* C30: after every completed scan pass every body row holds exactly one
\* derived data cell for each derived header cell, at the same column position
\* as that header, also when the host replaced or added body rows between two
\* passes while keeping the header row that already carries derived headers
\* (stated for the rows that have a cell for every host header).
C30_AlignedAfterPass ==
    hist.last = "scanAndInject" =>
        \A r \in 1..Len(tables[1].rows) :
            ~IsPartialRow(tables[1], r) => AlignedRow(tables[1], r)

(***************************************************************************)
(* Claims on the single-column toggle and the disabled lens (Spec)         *)
(***************************************************************************)
\* the header texts whose shown/hidden state the step's change of the
\* configuration concerns
ToggledTexts ==
    {HeaderOf(k) : k \in {q \in LensedKeys : lensedColumns'[q] # lensedColumns[q]}}
    \cup {h \in hiddenColumns \cup hiddenColumns' :
              (h \in hiddenColumns) # (h \in hiddenColumns')}

\* the display state of the columns headed text is the same in both tables
SameDisplayOf(table, full, text) ==
    \A i \in 1..Len(table.head) :
        trim(table.head[i].text) = text =>
            /\ table.head[i].hid = full.head[i].hid
            /\ \A r \in 1..Len(table.rows) :
                   i <= Len(table.rows[r]) => table.rows[r][i].hid = full.rows[r][i].hid

CheckboxStep ==
    /\ hist'.last \in {"lensedCheckbox", "originalCheckbox"}
    /\ hist'.ops = hist.ops + 1

\* C31: a checkbox change for derived key k or original header h updates the
\* configuration and at once sets the shown/hidden state of every header cell
\* with that text, and of the body cells at its index, in all tables, without
\* running a scan; afterwards the display state of that column in every table
\* equals the state a full applyColumnVisibility with the new configuration
\* gives.
C31_ImmediateToggle ==
    [][CheckboxStep =>
          /\ Cardinality(ToggledTexts) = 1
          /\ hist'.inj = hist.inj
          /\ \A t \in 1..Len(tables) :
                 /\ SameContent(tables'[t], tables[t])
                 /\ \A text \in ToggledTexts :
                        SameDisplayOf(tables'[t],
                                      applyColumnVisibility(tables'[t], lensedColumns',
                                                            hiddenColumns'),
                                      text)]_vars

\* a checkbox has just hidden a column that stands in a table: a derived
\* column whose key is now off, or an original column now in the hide-list
C31_Witness ==
    /\ hist.last \in {"lensedCheckbox", "originalCheckbox"}
    /\ \E t \in 1..Len(tables) : \E i \in 1..Len(tables[t].head) :
           /\ tables[t].head[i].hid
           /\ \A r \in 1..Len(tables[t].rows) : tables[t].rows[r][i].hid
           /\ IF IsInjected(tables[t].head[i])
              THEN hist.last = "lensedCheckbox"
                   /\ ~lensedColumns[LensedKeyOf(trim(tables[t].head[i].text))]
              ELSE hist.last = "originalCheckbox"
                   /\ trim(tables[t].head[i].text) \in hiddenColumns
                   /\ stored.present /\ trim(tables[t].head[i].text) \in stored.hiddenColumns

\* every cell of every table is a cell of the host: it carries no class
OnlyHostCells ==
    \A t \in 1..Len(tables) :
        /\ \A i \in 1..Len(tables[t].head) : tables[t].head[i].cls = ""
        /\ \A r \in 1..Len(tables[t].rows) :
               \A i \in 1..Len(tables[t].rows[r]) : tables[t].rows[r][i].cls = ""

\* C32: in every state where the lens is disabled, after any sequence of
\* events (watcher timer firing, the initial delayed scan, refresh, Apply &
\* Save, host mutations), no table contains an engine-inserted derived cell;
\* a debounce timer armed before the lens was switched off performs no scan
\* when it fires afterwards.
C32_DisabledInjectsNothing == ~enabled => OnlyHostCells

\* a pass had inserted columns, the lens was switched off, and the debounce
\* timeout armed by the removal has fired with the lens off
C32_Witness ==
    /\ ~enabled
    /\ hist.last = "debounce"
    /\ hist.inj >= 1
    /\ OnlyHostCells

(***************************************************************************)
(* Claims on repeated extractions (SpecAgg)                                *)
(***************************************************************************)
\* C33: two extractions with no host change in between (opening the aggregate
\* view, then Refresh or CSV export while the view's own pivot table is in
\* the document) return the same agents, the same list names and the same
\* counters; the engine's own pivot table never contributes agents, lists or
\* counters to an aggregation.
C33_ExtractionHostOnly ==
    [][(hist.last \in ExtractSteps /\ hist'.last \in ExtractSteps)
          => out'.data = out.data]_vars

(***************************************************************************)
(* Claims on a rejecting settings store (SpecSave)                         *)
(***************************************************************************)
\* the step is a configuration mutation whose save the store rejected
FailedSaveStep ==
    /\ hist'.last \in ConfigMutations
    /\ hist'.ops = hist.ops + 1
    /\ hist'.saveFailed

\* the configuration in memory is the one the panel's checkboxes show
ConfigAsPanel(p, hidden, lensed) ==
    /\ \A k \in LensedKeys : lensed[k] = p.lensedCb[k]
    /\ \A h \in DOMAIN p.origCb : (h \in hidden) = ~p.origCb[h]

\* C34: when the settings store rejects a save, no error escapes saveSettings,
\* the store keeps its entry, the configuration in memory keeps the mutated
\* value, and the operation that asked for the save completes as on a
\* successful save: a checkbox handler has set the display of its column, and
\* Apply & Save goes on past its await to the removal and the scan pass, after
\* which every table shows the policy of the configuration in memory.
C34_SaveFailureKeepsSession ==
    [][/\ FailedSaveStep =>
              /\ stored' = stored
              /\ ConfigAsPanel(panel', hiddenColumns', lensedColumns')
              /\ hist'.last = "apply" => task' = 1
              /\ hist'.last # "apply" =>
                     \A t \in 1..Len(tables) : \A text \in ToggledTexts :
                         SameDisplayOf(tables'[t],
                                       applyColumnVisibility(tables'[t], lensedColumns',
                                                             hiddenColumns'),
                                       text)
       /\ (task = 1 /\ task' = 0) =>
              /\ hist'.last = "applied"
              /\ hiddenColumns' = hiddenColumns /\ lensedColumns' = lensedColumns
              /\ \A t \in 1..Len(tables) :
                     tables'[t] = applyColumnVisibility(tables'[t], lensedColumns',
                                                        hiddenColumns')]_vars

\* the store rejected the save of Apply & Save, which went on to its removal
\* and scan pass: an original column of the hide-list is hidden in a table
\* while the store holds no entry that names it
C34_Witness ==
    /\ hist.last = "applied"
    /\ hist.saveFailed
    /\ ~panel.open
    /\ \E h \in hiddenColumns :
           /\ ~stored.present \/ h \notin stored.hiddenColumns
           /\ \E t \in 1..Len(tables) : \E i \in 1..Len(tables[t].head) :
                  trim(tables[t].head[i].text) = h /\ tables[t].head[i].hid

(***************************************************************************)
(* Claims on the status flag and the commands (SpecCmd)                    *)
(***************************************************************************)
\* the step is a refresh command, or Apply & Save going on after its await
RefreshStep == hist'.last = "refresh" /\ hist'.ops = hist.ops + 1
AppliedStep == task = 1 /\ task' = 0

\* the step switches the lens off
LensOffStep == enabled /\ ~enabled'

\* the step handles a command of the given name
CommandStep(name) == hist'.last = name /\ hist'.ops = hist.ops + 1

\* C35: columnsInjected, which the getStatus command reports as it stands,
\* becomes true in a pass that inserts at least one derived column, is false
\* after the lens is switched off, falls only in a step that removes the
\* injected columns (lens off, refresh, Apply & Save), and directly after a
\* refresh command or Apply & Save it is true exactly when some table
\* contains a derived column.
C35_InjectedFlag ==
    [][/\ CommandStep("getStatus") => out'.columnsInjected = columnsInjected
       /\ (hist'.inj = hist.inj + 1) => columnsInjected'
       /\ LensOffStep => ~columnsInjected'
       /\ (columnsInjected /\ ~columnsInjected') =>
              (LensOffStep \/ RefreshStep \/ AppliedStep)
       /\ (RefreshStep \/ AppliedStep) =>
              (columnsInjected' <=> HasInjected(tables'))]_vars

\* Apply & Save has just run with every derived column of the panel switched
\* off: the removal left no derived column, the pass inserted none, and the
\* flag is false although it was true before
C35_Witness ==
    /\ hist.last = "applied"
    /\ enabled
    /\ hist.inj >= 1
    /\ ~columnsInjected
    /\ ~HasInjected(tables)

\* the session state a command may change
Session == <<tables, enabled, hiddenColumns, lensedColumns, columnsInjected, panel,
             stored, timers, debounceTimer, records, task>>

\* C36: each command is handled in one step and answered with a status
\* payload in that step: toggle flips the enabled flag and reports the new
\* value; refresh removes all injected columns and runs one scan pass, so the
\* tables are those of a pass over the tables without their derived cells;
\* getStatus changes no state and reports both flags; an action the handler
\* does not know is answered with status error and changes neither the
\* configuration, the enabled flag nor any table.
C36_CommandInterface ==
    [][/\ CommandStep("toggle") =>
              /\ enabled' = ~enabled
              /\ out' = [status |-> "ok", enabled |-> enabled']
       /\ CommandStep("refresh") =>
              /\ out'.status = "ok"
              /\ tables' = scanAndInject(removeInjectedColumns(tables), enabled,
                                         lensedColumns, hiddenColumns).tables
              /\ hist'.inj <= hist.inj + 1
              /\ UNCHANGED <<enabled, hiddenColumns, lensedColumns>>
       /\ CommandStep("getStatus") =>
              /\ out' = [status |-> "ok", enabled |-> enabled,
                         columnsInjected |-> columnsInjected]
              /\ UNCHANGED Session
       /\ CommandStep("unknown") =>
              /\ out'.status = "error"
              /\ UNCHANGED Session]_vars

\* an action the handler does not know has just been answered with an error
\* while the lens is on and a table holds derived columns
C36_Witness ==
    /\ hist.last = "unknown"
    /\ inp.action = "setTheme"
    /\ out.status = "error"
    /\ enabled
    /\ HasInjected(tables)
====
